---- MODULE Spec2Model ----
(***************************************************************************)
(* rsnapshot_backup.py: the run coordinator (config load, enabled flag,   *)
(* run lock, final exit status) and the per-item pipeline (filters,       *)
(* defaults, before_backup_check, rotation, SSH sync, native sync).       *)
(*                                                                         *)
(* Texts (host names, command output, config lines) are sequences of      *)
(* chunks; a chunk is a TLA+ string.  Dynamic data is chunked per         *)
(* character where the code looks inside it (strip, split, str()).        *)
(***************************************************************************)
EXTENDS Integers, Sequences, FiniteSets, TLC

(* ----------------------------- bounds ---------------------------------- *)

\* longest item list of a configuration
MaxItems == 3

\* longest item list when two runs are started together
MaxItemsTwo == 1

(* ----------------------------- constants ------------------------------- *)

Runs == {1, 2, 3}

\* socket.gethostname() of the backup server
SELF_HOSTNAME == <<"b", "k", "1">>

RSNAPSHOT_CONF == <<"/opt/sysadmws/rsnapshot_backup/rsnapshot.conf">>
RSNAPSHOT_PASSWD == <<"/opt/sysadmws/rsnapshot_backup/rsnapshot.passwd">>

DB1 == <<"d", "b", "1">>
DB2 == <<"d", "b", "2">>

\* a file that does not exist
ABSENT == <<"<absent>">>

\* characters removed by str.lstrip() / str.rstrip() without arguments
Whitespace == {" ", "\t", "\n", "\r"}

RotateModes == {"hourly", "daily", "weekly", "monthly"}
Modes == {"sync"} \cup RotateModes

SshTypes == {"RSYNC_SSH", "MYSQL_SSH", "POSTGRESQL_SSH", "MONGODB_SSH"}
DbTypes == {"MYSQL_SSH", "POSTGRESQL_SSH", "MONGODB_SSH"}
NativeTypes == {"RSYNC_NATIVE"}

(* ----------------------------- text helpers ---------------------------- *)

Has(d, k) == k \in DOMAIN d

Digits == <<"0", "1", "2", "3", "4", "5", "6", "7", "8", "9">>

\* str(n) for a natural number
RECURSIVE ToStr(_)
ToStr(n) == IF n < 10 THEN <<Digits[n + 1]>>
            ELSE ToStr(n \div 10) \o <<Digits[(n % 10) + 1]>>

\* str.lstrip()
RECURSIVE LStrip(_)
LStrip(s) == IF s # <<>> /\ Head(s) \in Whitespace THEN LStrip(Tail(s)) ELSE s

\* str.rstrip()
RECURSIVE RStrip(_)
RStrip(s) == IF s # <<>> /\ s[Len(s)] \in Whitespace
             THEN RStrip(SubSeq(s, 1, Len(s) - 1)) ELSE s

\* index of the first ":" of s, 0 if none
RECURSIVE ColonAt(_, _)
ColonAt(s, i) == IF i > Len(s) THEN 0
                 ELSE IF s[i] = ":" THEN i ELSE ColonAt(s, i + 1)

\* s.split(":")[0]
SplitHead(s) == IF ColonAt(s, 1) = 0 THEN s ELSE SubSeq(s, 1, ColonAt(s, 1) - 1)

\* s.split(":")[1], for s containing ":"
SplitSecond(s) == SplitHead(SubSeq(s, ColonAt(s, 1) + 1, Len(s)))

(* ----------------------------- items ----------------------------------- *)

\* An item is a dict: a function from its keys to their values.  A key the
\* YAML document leaves out is outside the DOMAIN.

Item(type, host, path, connect, source) ==
    [enabled |-> TRUE, host |-> host, type |-> type, path |-> path,
     connect |-> connect, source |-> source]

P1 == <<"/backup/p1">>
P2 == <<"/backup/p2">>
Paths == {P1, P2}

Conn1 == <<"h", "1">>
Conn2 == <<"h", "2", ":", "2", "2", "2", "2">>

CheckCmd == <<"test -d /backup">>
HookCmd == <<"sync">>
Secret == <<"s3cret">>

\* the items a configuration is made of
ItemPool ==
    { Item("RSYNC_SSH", DB1, P1, Conn1, <<"UBUNTU">>)
        @@ ("exclude" :> << <<"/home">> >>),
      Item("RSYNC_SSH", DB1, P1, Conn2, <<"/data">>)
        @@ ("before_backup_check" :> CheckCmd) @@ ("exec_before_rsync" :> HookCmd)
        @@ ("exec_after_rsync" :> HookCmd) @@ ("retain_hourly" :> 3),
      Item("RSYNC_SSH", DB2, P2, Conn1, <<"/data">>)
        @@ ("validate_hostname" :> FALSE) @@ ("retain_daily" :> 0),
      Item("MYSQL_SSH", DB1, P2, Conn1, <<"ALL">>)
        @@ ("before_backup_check" :> CheckCmd) @@ ("exec_after_rsync" :> HookCmd),
      Item("MYSQL_SSH", DB2, P1, Conn1, <<"shop">>)
        @@ ("mysql_dump_type" :> <<"xtrabackup">>),
      Item("POSTGRESQL_SSH", SELF_HOSTNAME, P2, Conn2, <<"ALL">>)
        @@ ("exec_before_rsync" :> HookCmd) @@ ("retain_hourly" :> 3),
      Item("MONGODB_SSH", DB2, P1, Conn1, <<"ALL">>),
      Item("RSYNC_NATIVE", DB1, P2, Conn2, <<"/share">>)
        @@ ("connect_password" :> Secret) @@ ("native_txt_check" :> TRUE),
      Item("RSYNC_NATIVE", DB2, P1, Conn1, <<"/share">>)
        @@ ("connect_password" :> Secret) @@ ("before_backup_check" :> CheckCmd)
        @@ ("native_10h_limit" :> TRUE),
      Item("RSYNC_NATIVE", DB1, P1, Conn1, <<"/share">>),
      Item("FTP", DB1, P1, Conn1, <<"/data">>),
      [enabled |-> FALSE, host |-> DB1, type |-> "RSYNC_SSH", path |-> P2,
       connect |-> Conn1, source |-> <<"UBUNTU">>],
      [host |-> DB1, type |-> "RSYNC_SSH", path |-> P1,
       connect |-> Conn1, source |-> <<"UBUNTU">>] }

\* a dict that holds no item yet
NoItem == [none |-> TRUE]

\* variant: item[k] = v whether or not the key is there
SetDefaultOverrides(it, k, v) == (k :> v) @@ it

\* if k not in item: item[k] = v
SetDefault(it, k, v) == IF Has(it, k) THEN it ELSE it @@ (k :> v)

\* item[k] = v
SetKey(it, k, v) == (k :> v) @@ it

\* lines 181-237: the item defaults
ApplyDefaults(it, debug) ==
    LET d1  == SetDefault(it, "retain_daily", 7)
        d2  == SetDefault(d1, "retain_weekly", 4)
        d3  == SetDefault(d2, "retain_monthly", 3)
        d4  == SetDefault(d3, "connect_user", <<"root">>)
        d5  == SetDefault(d4, "validate_hostname", TRUE)
        d6  == SetDefault(d5, "mysql_noevents", FALSE)
        d7  == SetDefault(d6, "postgresql_noclean", FALSE)
        d8  == SetDefault(d7, "native_txt_check", FALSE)
        d9  == SetDefault(d8, "native_10h_limit", FALSE)
        d10 == SetKey(d9, "verbosity_level", IF debug THEN 5 ELSE 2)
        d11 == SetKey(d10, "rsync_verbosity_args",
                      IF debug THEN <<"--human-readable --progress">> ELSE <<>>)
        d12 == SetDefault(d11, "rsync_args", <<>>)
        d13 == SetDefault(d12, "mysql_dump_dir", <<"/var/backups/mysql">>)
        d14 == SetDefault(d13, "postgresql_dump_dir", <<"/var/backups/postgresql">>)
        d15 == SetDefault(d14, "mongodb_dump_dir", <<"/var/backups/mongodb">>)
        d16 == SetDefault(d15, "mysqldump_args", <<>>)
        d17 == SetDefault(d16, "pg_dump_args", <<>>)
        d18 == SetDefault(d17, "mongo_args", <<>>)
        d19 == SetDefault(d18, "xtrabackup_throttle", <<"20">>)
        d20 == SetDefault(d19, "xtrabackup_parallel", <<"2">>)
        d21 == SetDefault(d20, "xtrabackup_compress_threads", <<"2">>)
    IN  SetDefault(d21, "xtrabackup_args", <<>>)

\* lines 326-331 / 925-930: connect_host and connect_port from "host[:port]"
\* variant: the split consumes the port, connect is left holding the host only
DeriveConnectConsumes(it, default_port) ==
    IF ColonAt(it.connect, 1) # 0
    THEN SetKey(SetKey(SetKey(it, "connect_host", SplitHead(it.connect)),
                       "connect_port", SplitSecond(it.connect)),
                "connect", SplitHead(it.connect))
    ELSE SetKey(SetKey(it, "connect_host", it.connect),
                "connect_port", ToStr(default_port))

DeriveConnect(it, default_port) ==
    IF ColonAt(it.connect, 1) # 0
    THEN SetKey(SetKey(it, "connect_host", SplitHead(it.connect)),
                "connect_port", SplitSecond(it.connect))
    ELSE SetKey(SetKey(it, "connect_host", it.connect),
                "connect_port", ToStr(default_port))

(* ----------------------------- config emission ------------------------- *)

\* A config file is a sequence of lines, a line is a text.

\* variant: the hourly line is never commented out
ConfHeadHourlyActive(it) ==
    << <<"config_version\t1.2">>,
       <<"snapshot_root\t">> \o it.path,
       <<"cmd_cp\t\t/bin/cp">>,
       <<"cmd_rm\t\t/bin/rm">>,
       <<"cmd_rsync\t/usr/bin/rsync">>,
       <<"cmd_ssh\t\t/usr/bin/ssh">>,
       <<"cmd_logger\t/usr/bin/logger">>,
       <<"retain\t\thourly\t">>
          \o (IF Has(it, "retain_hourly") THEN ToStr(it.retain_hourly) ELSE <<"NONE">>),
       <<"retain\t\tdaily\t">> \o ToStr(it.retain_daily),
       <<"retain\t\tweekly\t">> \o ToStr(it.retain_weekly),
       <<"retain\t\tmonthly\t">> \o ToStr(it.retain_monthly),
       <<"verbose\t\t">> \o ToStr(it.verbosity_level),
       <<"loglevel\t3">>,
       <<"logfile\t\t/opt/sysadmws/rsnapshot_backup/rsnapshot.log">>,
       <<"lockfile\t/opt/sysadmws/rsnapshot_backup/rsnapshot.pid">> >>

\* lines 277-292, 860-875, 968-983: the head the three templates share
ConfHead(it) ==
    << <<"config_version\t1.2">>,
       <<"snapshot_root\t">> \o it.path,
       <<"cmd_cp\t\t/bin/cp">>,
       <<"cmd_rm\t\t/bin/rm">>,
       <<"cmd_rsync\t/usr/bin/rsync">>,
       <<"cmd_ssh\t\t/usr/bin/ssh">>,
       <<"cmd_logger\t/usr/bin/logger">>,
       (IF Has(it, "retain_hourly") THEN <<>> ELSE <<"#">>)
          \o <<"retain\t\thourly\t">>
          \o (IF Has(it, "retain_hourly") THEN ToStr(it.retain_hourly) ELSE <<"NONE">>),
       <<"retain\t\tdaily\t">> \o ToStr(it.retain_daily),
       <<"retain\t\tweekly\t">> \o ToStr(it.retain_weekly),
       <<"retain\t\tmonthly\t">> \o ToStr(it.retain_monthly),
       <<"verbose\t\t">> \o ToStr(it.verbosity_level),
       <<"loglevel\t3">>,
       <<"logfile\t\t/opt/sysadmws/rsnapshot_backup/rsnapshot.log">>,
       <<"lockfile\t/opt/sysadmws/rsnapshot_backup/rsnapshot.pid">> >>

\* lines 274-304: the rotation config
RotationConf(it) ==
    ConfHead(it) \o
    << <<"sync_first\t1">>,
       <<"# any backup definition enough for rotation">>,
       <<"backup\t\t/etc/\t\trsnapshot/">> >>

SSH_ARGS == <<"-o BatchMode=yes -o StrictHostKeyChecking=no">>

\* lines 795-799: conf_backup_line_template
BackupLine(it, source, tab, long_args) ==
    <<"backup\t\t">> \o it.connect_user \o <<"@">> \o it.connect_host \o <<":">>
       \o source \o <<"/\trsnapshot/">> \o tab \o long_args

\* lines 804-808
DataExpandKeys == {<<"UBUNTU">>, <<"DEBIAN">>, <<"CENTOS">>}

DataExpand(k) ==
    IF k = <<"CENTOS">>
    THEN << <<"/etc">>, <<"/home">>, <<"/root">>, <<"/var/spool/cron">>,
            <<"/var/lib/rpm">>, <<"/usr/local">>, <<"/opt/sysadmws">> >>
    ELSE << <<"/etc">>, <<"/home">>, <<"/root">>, <<"/var/spool/cron">>,
            <<"/var/lib/dpkg">>, <<"/usr/local">>, <<"/opt/sysadmws">> >>

InList(x, list) == \E i \in 1..Len(list) : list[i] = x

\* lines 810-819: one line per expanded directory that is not excluded
RECURSIVE ExpandLines(_, _)
ExpandLines(it, dirs) ==
    IF dirs = <<>> THEN <<>>
    ELSE (IF ~(Has(it, "exclude") /\ InList(Head(dirs), it.exclude))
          THEN << BackupLine(it, Head(dirs),
                     IF Head(dirs) = <<"/opt/sysadmws">> THEN <<"\t">> ELSE <<>>,
                     IF Head(dirs) = <<"/opt/sysadmws">>
                     THEN <<"+rsync_long_args=--exclude=/opt/sysadmws/bulk_log --exclude=log">>
                     ELSE <<>>) >>
          ELSE <<>>)
         \o ExpandLines(it, Tail(dirs))

IsXtrabackup(it) == Has(it, "mysql_dump_type") /\ it.mysql_dump_type = <<"xtrabackup">>

\* variant: the source of an RSYNC_SSH item is always taken as a path
BackupLinesNoExpand(it) ==
    CASE it.type = "RSYNC_SSH" ->
           << BackupLine(it, it.source, <<>>, <<>>) >>
      [] it.type = "MYSQL_SSH" ->
           << BackupLine(it, it.mysql_dump_dir,
                 IF IsXtrabackup(it) THEN <<"\t">> ELSE <<>>,
                 IF IsXtrabackup(it) THEN <<"+rsync_long_args=--no-compress">> ELSE <<>>) >>
      [] it.type = "POSTGRESQL_SSH" ->
           << BackupLine(it, it.postgresql_dump_dir, <<>>, <<>>) >>
      [] it.type = "MONGODB_SSH" ->
           << BackupLine(it, it.mongodb_dump_dir, <<>>, <<>>) >>
      [] OTHER -> <<>>

\* lines 800-854: conf_backup_lines
BackupLines(it) ==
    CASE it.type = "RSYNC_SSH" ->
           IF it.source \in DataExpandKeys
           THEN ExpandLines(it, DataExpand(it.source))
           ELSE << BackupLine(it, it.source, <<>>, <<>>) >>
      [] it.type = "MYSQL_SSH" ->
           << BackupLine(it, it.mysql_dump_dir,
                 IF IsXtrabackup(it) THEN <<"\t">> ELSE <<>>,
                 IF IsXtrabackup(it) THEN <<"+rsync_long_args=--no-compress">> ELSE <<>>) >>
      [] it.type = "POSTGRESQL_SSH" ->
           << BackupLine(it, it.postgresql_dump_dir, <<>>, <<>>) >>
      [] it.type = "MONGODB_SSH" ->
           << BackupLine(it, it.mongodb_dump_dir, <<>>, <<>>) >>
      [] OTHER -> <<>>

\* lines 856-893: the SSH sync config
SshConf(it) ==
    ConfHead(it) \o
    << <<"ssh_args\t">> \o SSH_ARGS \o <<" -p ">> \o it.connect_port,
       <<"rsync_long_args\t-az --delete --delete-excluded --numeric-ids --relative ">>
          \o it.rsync_verbosity_args \o <<" ">> \o it.rsync_args,
       <<"sync_first\t1">> >>
    \o BackupLines(it) \o << <<>> >>

\* lines 964-1002: the native sync config
NativeConf(it) ==
    ConfHead(it) \o
    << <<"rsync_long_args\t-az --delete --delete-excluded --no-owner --no-group --numeric-ids --relative --password-file=">>
          \o RSNAPSHOT_PASSWD \o <<" ">> \o it.rsync_verbosity_args \o <<" ">> \o it.rsync_args,
       <<"sync_first\t1">>,
       <<"backup\t\trsync://">> \o it.connect_user \o <<"@">> \o it.connect_host \o <<":">>
          \o it.connect_port \o it.source \o <<"/\t\trsnapshot/">> >>


(* ----------------------------- state ----------------------------------- *)

VARIABLES
    pc,               \* where each run is in the script
    args,             \* the parsed command line of each run
    nItems,           \* len(config["items"]) of the configuration each run loads
    idx,              \* how many items the for loop has taken
    item,             \* the loop variable
    errors,           \* the error counter, -1 while unassigned
    paths_processed,  \* the paths rotated so far, in order
    exc,              \* an exception is propagating out of the item loop
    exit_code,        \* the process exit status, -1 while running
    lock,             \* the run that holds LOCK_FILE, 0 if free
    conf,             \* the content of RSNAPSHOT_CONF
    passwd,           \* the content of RSNAPSHOT_PASSWD
    steps,            \* history: the commands and writes of the current item, in order
    received,         \* history: what the remote hostname command printed for the item
    last,             \* history: how the latest stage of the run ended
    hist              \* history: per-run tallies

\* The loopback authorization script works on the files of /root/.ssh of the
\* backup server.
VARIABLES
    id_rsa_pub,       \* /root/.ssh/id_rsa.pub exists
    authorized_keys,  \* the content of /root/.ssh/authorized_keys
    authorized_mode,  \* the permission bits of /root/.ssh/authorized_keys
    boot_runs,        \* history: how many times the script has run
    keys_before       \* history: authorized_keys before the latest run

main_vars == <<pc, args, nItems, idx, item, errors, paths_processed, exc, exit_code,
               lock, conf, passwd, steps, received, last, hist>>

boot_vars == <<id_rsa_pub, authorized_keys, authorized_mode, boot_runs, keys_before>>

\* The remote dump scripts work on the dump directory of one database host.
VARIABLES
    script,           \* each remote dump script: where it is, its trap, its exit status
    dump_dir          \* the dump directory: exists, mode, dump.lock, and who made dump.lock

dump_vars == <<script, dump_dir>>

\* The preparation of one item, step by step: the dict as loaded from the
\* YAML document, the defaults, and what is generated from the dict.
VARIABLES
    prep_in,          \* history: the item as the YAML document gives it
    prep_debug,       \* args.debug
    prep_item,        \* the item dict
    prep_passes,      \* how many times the defaults have been applied
    prep_conf,        \* the config generated from the item: its kind and its lines
    prep_script,      \* the remote dump script generated from the item
    prep_again        \* the config a second emission generates from the same dict

prep_vars == <<prep_in, prep_debug, prep_item, prep_passes, prep_conf, prep_script,
              prep_again>>

\* The per-database part of a remote dump script works on the artifacts of
\* the dump directory.
VARIABLES
    dp_variant,       \* the template the script comes from
    dp_art,           \* per database: the artifact in the dump directory
    dp_work,          \* per database: the directory mongodump writes exists
    dp_ver,           \* per database: the version of its content on the server
    dp_calls,         \* history: per database, how often the dump tool was invoked
    dp_last           \* history: the latest per-database step

part_vars == <<dp_variant, dp_art, dp_work, dp_ver, dp_calls, dp_last>>

vars == <<main_vars, boot_vars, dump_vars, prep_vars, part_vars>>

\* scripts started against the same dump directory
MaxScripts == 2

Scripts == 1..MaxScripts

\* variant: which template the script comes from
\* state:   "idle", "running", "exiting" (past the last command) or "exited"
\* at:      the command the script is at
\* trap:    trap ... 0 has been executed
\* rc:      the exit status, -1 before the shell leaves
\* polled:  history: the script has slept in the wait loop
\* log:     history: the commands that ran and returned 0, in order
NoScript ==
    [variant |-> "none", state |-> "idle", at |-> 0, trap |-> FALSE, rc |-> -1,
     polled |-> FALSE, log |-> <<>>]

\* the dump directory does not exist
NoDumpDir == [exists |-> FALSE, mode |-> "none", lock |-> FALSE, owner |-> 0]

\* no remote dump script is looked at
DumpIdle ==
    /\ script = [s \in Scripts |-> NoScript]
    /\ dump_dir = NoDumpDir

\* the databases of the server
Databases == {"shop", "crm"}

\* no artifact for the database
NoArtifact == [kind |-> "none", content |-> 0]

\* no per-database step has run since the artifacts were last removed
NoStep == [db |-> "none", existed |-> FALSE, invoked |-> FALSE, before |-> NoArtifact]

\* no dump directory is looked at
PartIdle ==
    /\ dp_variant = "none"
    /\ dp_art = [d \in Databases |-> NoArtifact]
    /\ dp_work = [d \in Databases |-> FALSE]
    /\ dp_ver = [d \in Databases |-> 1]
    /\ dp_calls = [d \in Databases |-> 0]
    /\ dp_last = NoStep

\* nothing generated yet
NoConf == [kind |-> "none", lines |-> <<>>]
NoDumpScript == [variant |-> "none"]

\* no item is prepared
PrepIdle ==
    /\ prep_in = NoItem
    /\ prep_debug = FALSE
    /\ prep_item = NoItem
    /\ prep_passes = 0
    /\ prep_conf = NoConf
    /\ prep_script = NoDumpScript
    /\ prep_again = NoConf

\* /root/.ssh is not looked at
BootIdle ==
    /\ id_rsa_pub = TRUE
    /\ authorized_keys = ABSENT
    /\ authorized_mode = "none"
    /\ boot_runs = 0
    /\ keys_before = ABSENT

\* lines 101-119: the command lines considered
ArgsPool ==
    { [mode |-> m, debug |-> FALSE] : m \in Modes }
    \cup { [mode |-> "daily", debug |-> TRUE],
           [mode |-> "sync", debug |-> FALSE, item_number |-> <<"2">>],
           [mode |-> "weekly", debug |-> FALSE, host |-> DB1] }

\* what `ssh ... hostname` may print
HostnameOutputs ==
    { DB1 \o <<"\n">>,
      <<" ">> \o DB1 \o <<" ", "\n">>,
      DB2 \o <<"\n">>,
      <<"d", "b", " ", "1", "\n">>,
      SELF_HOSTNAME \o <<"\n">> }

\* trouble:       "none", "one_check" (exactly one before_backup_check exited
\*                non-zero and nothing else went wrong) or "other" (a command
\*                other than that exited non-zero, or an exception was raised)
\* cond:          an item was refused for what it is (unknown type, no password)
\* left_enabled:  an enabled item whose before_backup_check did not fail was
\*                not processed to the end
\* left_selected: the same, among the enabled items that match the filters
\* faulted:       an exception was raised while an item was processed
\* err0:          the error counter when the current item was taken
\* tool:          rotation runs of rsnapshot per path
\* cfg_paths:     the paths of the items taken from the list
\* elig_paths:    the paths of the items that reached the rotation
\* passed:        the paths of the items that have no before_backup_check, or
\*                whose before_backup_check exited 0
\* broken:        the paths whose rotation an exception interrupted
NoHist ==
    [trouble |-> "none", cond |-> FALSE, left_enabled |-> FALSE, left_selected |-> FALSE,
     faulted |-> FALSE, err0 |-> 0,
     tool |-> [p \in Paths |-> 0], cfg_paths |-> {}, elig_paths |-> {}, passed |-> {},
     broken |-> {}]

NoArgs == [mode |-> "sync", debug |-> FALSE]

\* the runs `started` begin, each with a command line of argsOf[r] and a
\* configuration of at most maxItems items
InitWith(started, argsOf, maxItems, holders) ==
    /\ pc = [r \in Runs |-> IF r \in started THEN "load" ELSE "absent"]
    /\ args \in [Runs -> ArgsPool]
    /\ \A r \in Runs : args[r] \in argsOf[r]
    /\ nItems \in [Runs -> 0..maxItems]
    /\ \A r \in Runs \ started : nItems[r] = 0
    /\ idx = [r \in Runs |-> 0]
    /\ item = [r \in Runs |-> NoItem]
    /\ errors = [r \in Runs |-> -1]
    /\ paths_processed = [r \in Runs |-> <<>>]
    /\ exc = [r \in Runs |-> FALSE]
    /\ exit_code = [r \in Runs |-> -1]
    /\ lock \in holders
    /\ conf = ABSENT
    /\ passwd = ABSENT
    /\ steps = [r \in Runs |-> <<>>]
    /\ received = [r \in Runs |-> <<>>]
    /\ last = [r \in Runs |-> "none"]
    /\ hist = [r \in Runs |-> NoHist]

\* One run is started.  LOCK_FILE is free, or held by a run started earlier
\* that stays busy (run 2, which takes no step).
Init ==
    /\ InitWith({1}, [r \in Runs |-> IF r = 1 THEN ArgsPool ELSE {NoArgs}],
                MaxItems, {0, 2})
    /\ BootIdle
    /\ DumpIdle
    /\ PrepIdle
    /\ PartIdle

\* two runs started on the same host: the sync and the daily rotation cron job
ArgsTwo == [r \in Runs |-> CASE r = 1 -> {[mode |-> "sync", debug |-> FALSE]}
                              [] r = 2 -> {[mode |-> "daily", debug |-> FALSE]}
                              [] OTHER -> {NoArgs}]

InitTwo ==
    /\ InitWith({1, 2}, ArgsTwo, MaxItemsTwo, {0})
    /\ BootIdle
    /\ DumpIdle
    /\ PrepIdle
    /\ PartIdle

\* three runs started on the same host: the sync, the daily rotation and the
\* hourly rotation cron job
ArgsThree == [r \in Runs |-> CASE r = 1 -> {[mode |-> "sync", debug |-> FALSE]}
                                [] r = 2 -> {[mode |-> "daily", debug |-> FALSE]}
                                [] OTHER -> {[mode |-> "hourly", debug |-> FALSE]}]

InitThree ==
    /\ InitWith(Runs, ArgsThree, MaxItemsTwo, {0})
    /\ BootIdle
    /\ DumpIdle
    /\ PrepIdle
    /\ PartIdle

\* no run is started
MainIdle == InitWith({}, [r \in Runs |-> {NoArgs}], 0, {0})

(* ----------------------------- run coordinator ------------------------- *)

Goto(r, label) == pc' = [pc EXCEPT ![r] = label]

Did(r, name, rc) == steps' = [steps EXCEPT ![r] = Append(@, <<name, rc>>)]

\* lines 1042-1047: except Exception: sys.exit(1); otherwise the script ends
ExitStatus(raised) == IF raised THEN 1 ELSE 0

\* variant: the enabled flag is logged but the run goes on
LoadConfigIgnoresFlag(r) ==
    /\ pc[r] = "load"
    /\ \/ /\ Goto(r, "exited")
          /\ exc' = [exc EXCEPT ![r] = TRUE]
          /\ exit_code' = [exit_code EXCEPT ![r] = ExitStatus(TRUE)]
          /\ last' = [last EXCEPT ![r] = "load_failed"]
       \/ /\ Goto(r, "lock")
          /\ last' = [last EXCEPT ![r] = "disabled"]
          /\ UNCHANGED <<exc, exit_code>>
       \/ /\ Goto(r, "lock")
          /\ UNCHANGED <<exc, exit_code, last>>
    /\ UNCHANGED <<args, nItems, idx, item, errors, paths_processed, lock, conf, passwd,
                   steps, received, hist>>

\* lines 129-147: load the YAML config, check the enabled flag
LoadConfig(r) ==
    /\ pc[r] = "load"
    /\ \/ /\ Goto(r, "exited")                  \* open() or yaml.load() raises
          /\ exc' = [exc EXCEPT ![r] = TRUE]
          /\ exit_code' = [exit_code EXCEPT ![r] = ExitStatus(TRUE)]
          /\ last' = [last EXCEPT ![r] = "load_failed"]
       \/ /\ Goto(r, "exited")                  \* config["enabled"] != True: sys.exit(0)
          /\ exit_code' = [exit_code EXCEPT ![r] = 0]
          /\ last' = [last EXCEPT ![r] = "disabled"]
          /\ UNCHANGED exc
       \/ /\ Goto(r, "lock")
          /\ UNCHANGED <<exc, exit_code, last>>
    /\ UNCHANGED <<args, nItems, idx, item, errors, paths_processed, lock, conf, passwd,
                   steps, received, hist>>

\* variant: acquire() that does not look at the holder
LockAcquireBlind(holder, r) == r

\* lockfile.LockFile.acquire(timeout=0): take the lock if it is free
LockAcquire(holder, r) == IF holder = 0 THEN r ELSE holder

\* lines 152-160: lock.acquire(timeout=0), errors = 0, paths_processed = []
AcquireLock(r) ==
    /\ pc[r] = "lock"
    /\ \/ /\ LockAcquire(lock, r) = r
          /\ lock' = LockAcquire(lock, r)
          /\ errors' = [errors EXCEPT ![r] = 0]
          /\ paths_processed' = [paths_processed EXCEPT ![r] = <<>>]
          /\ Goto(r, "loop")
          /\ UNCHANGED <<exc, last>>
       \/ /\ LockAcquire(lock, r) # r             \* AlreadyLocked
          /\ exc' = [exc EXCEPT ![r] = TRUE]
          /\ last' = [last EXCEPT ![r] = "locked_out"]
          /\ Goto(r, "finally")
          /\ UNCHANGED <<lock, errors, paths_processed>>
    /\ UNCHANGED <<args, nItems, idx, item, exit_code, conf, passwd,
                   steps, received, hist>>

\* variant: one error is tolerated
RaiseAfterLoopLax(errs) == errs > 1

\* line 1033: if errors > 0: raise Exception("There were errors")
RaiseAfterLoop(errs) == errs > 0

\* lines 1032-1037: after the loop, raise if there were errors
EndLoop(r) ==
    /\ pc[r] = "loop"
    /\ idx[r] = nItems[r]
    /\ exc' = [exc EXCEPT ![r] = RaiseAfterLoop(errors[r])]
    /\ Goto(r, "finally")
    /\ UNCHANGED <<args, nItems, idx, item, errors, paths_processed, exit_code, lock,
                   conf, passwd, steps, received, last, hist>>

\* variant: release() that leaves the lock file in place
LockReleaseNone(holder, r) == holder

\* variant: release() that removes the lock file whoever holds it
LockReleaseAny(holder, r) == 0

\* lockfile.LockFile.release(): only the holder's release frees the lock
LockRelease(holder, r) == IF holder = r THEN 0 ELSE holder

\* lines 1039-1047: finally: lock.release(), which raises when the run holds
\* no lock; then the exception, if any, ends the script with sys.exit(1)
Finally(r) ==
    /\ pc[r] = "finally"
    /\ lock' = LockRelease(lock, r)
    /\ exc' = [exc EXCEPT ![r] = @ \/ lock # r]
    /\ exit_code' = [exit_code EXCEPT ![r] = ExitStatus(exc[r] \/ lock # r)]
    /\ Goto(r, "exited")
    /\ UNCHANGED <<args, nItems, idx, item, errors, paths_processed,
                   conf, passwd, steps, received, last, hist>>


\* the process is gone: only its exit status and the files it wrote remain
Reap(r) ==
    /\ pc[r] = "exited"
    /\ Goto(r, "gone")
    /\ nItems' = [nItems EXCEPT ![r] = 0]
    /\ idx' = [idx EXCEPT ![r] = 0]
    /\ item' = [item EXCEPT ![r] = NoItem]
    /\ errors' = [errors EXCEPT ![r] = -1]
    /\ paths_processed' = [paths_processed EXCEPT ![r] = <<>>]
    /\ exc' = [exc EXCEPT ![r] = FALSE]
    /\ steps' = [steps EXCEPT ![r] = <<>>]
    /\ received' = [received EXCEPT ![r] = <<>>]
    /\ last' = [last EXCEPT ![r] = "none"]
    /\ hist' = [hist EXCEPT ![r] = NoHist]
    /\ UNCHANGED <<args, exit_code, lock, conf, passwd>>

(* ----------------------------- item loop ------------------------------- *)

\* history: a before_backup_check exited non-zero
CheckFailed(h) ==
    [h EXCEPT !.trouble = IF @ = "none" THEN "one_check" ELSE "other"]

\* history: the item got past lines 239-254
Passed(h, it) == [h EXCEPT !.passed = @ \cup {it.path}]

\* history: the item was not processed to the end
Left(h) == [h EXCEPT !.left_enabled = TRUE, !.left_selected = TRUE]

\* history: another command exited non-zero, or an exception was raised
Troubled(h) == [h EXCEPT !.trouble = "other"]

\* history: an exception was raised while an item was processed
Faulted(h) == Left(Troubled([h EXCEPT !.faulted = TRUE]))

\* history: the item was refused for what it is
Refused(h) == Left([h EXCEPT !.cond = TRUE])

\* variant: the --host filter is not applied
SelectedAnyHost(it, a) ==
    /\ it.enabled
    /\ Has(a, "item_number") => ToStr(it.number) = a.item_number

\* lines 165-174: the enabled flag and the --item-number / --host filters
Selected(it, a) ==
    /\ it.enabled
    /\ Has(a, "item_number") => ToStr(it.number) = a.item_number
    /\ Has(a, "host") => it.host = a.host

\* variant: every type that is not native is taken for an SSH type
DispatchSshDefault(it, a) ==
    IF a.mode \in RotateModes THEN "rot_dedup"
    ELSE IF it.type \in NativeTypes THEN "native_check"
    ELSE "ssh_check"

\* the first step after before_backup_check: lines 257, 320-322, 923, 1023
Dispatch(it, a) ==
    IF a.mode \in RotateModes THEN "rot_dedup"
    ELSE IF it.type \in SshTypes THEN "ssh_check"
    ELSE IF it.type \in NativeTypes THEN "native_check"
    ELSE "unknown_type"

\* a command exited 0, or a write succeeded: go on with the item
Ok(r, name, label) ==
    /\ Did(r, name, "ok")
    /\ Goto(r, label)
    /\ UNCHANGED <<errors, last, hist>>

\* variant: a command that exited non-zero ends the item
FailOnStops(r, name, label) ==
    /\ Did(r, name, "fail")
    /\ errors' = [errors EXCEPT ![r] = @ + 1]
    /\ hist' = [hist EXCEPT ![r] = Left(Troubled(@))]
    /\ last' = [last EXCEPT ![r] = "skipped"]
    /\ Goto(r, "loop")

\* variant: a command that exited non-zero is logged but not counted
FailOnSilent(r, name, label) ==
    /\ Did(r, name, "fail")
    /\ hist' = [hist EXCEPT ![r] = Troubled(@)]
    /\ Goto(r, label)
    /\ UNCHANGED <<errors, last>>

\* a command exited non-zero, "but script continues": errors += 1
FailOn(r, name, label) ==
    /\ Did(r, name, "fail")
    /\ errors' = [errors EXCEPT ![r] = @ + 1]
    /\ hist' = [hist EXCEPT ![r] = Troubled(@)]
    /\ Goto(r, label)
    /\ UNCHANGED last

\* a command exited non-zero, "not doing sync": errors += 1; continue
Skip(r, name) ==
    /\ Did(r, name, "fail")
    /\ errors' = [errors EXCEPT ![r] = @ + 1]
    /\ hist' = [hist EXCEPT ![r] = IF name = "before_backup_check"
                                   THEN CheckFailed(@) ELSE Left(Troubled(@))]
    /\ last' = [last EXCEPT ![r] = "skipped"]
    /\ Goto(r, "loop")

\* lines 1027-1030: an exception inside the item's try: errors += 1, next item
Caught(r, name) ==
    /\ Did(r, name, "fault")
    /\ errors' = [errors EXCEPT ![r] = @ + 1]
    /\ hist' = [hist EXCEPT ![r] = Faulted(@)]
    /\ last' = [last EXCEPT ![r] = "fault"]
    /\ Goto(r, "loop")

\* lines 1027-1030, for an exception raised between lines 272 and 317
CaughtRotating(r, name) ==
    /\ Did(r, name, "fault")
    /\ errors' = [errors EXCEPT ![r] = @ + 1]
    /\ hist' = [hist EXCEPT ![r] = Faulted([@ EXCEPT !.broken = @ \cup {item[r].path}])]
    /\ last' = [last EXCEPT ![r] = "fault"]
    /\ Goto(r, "loop")

\* the last step of the loop body: the item is done, with nerr more errors
Done(r, name, rc, nerr) ==
    /\ Did(r, name, rc)
    /\ errors' = [errors EXCEPT ![r] = @ + nerr]
    /\ hist' = [hist EXCEPT ![r] = IF nerr > 0 THEN Troubled(@) ELSE @]
    /\ last' = [last EXCEPT ![r] = "done"]
    /\ Goto(r, "loop")

\* lines 163-237: take the next item, check enabled and filters, apply defaults
StartItem(r) ==
    /\ pc[r] = "loop"
    /\ idx[r] < nItems[r]
    /\ \E it \in ItemPool :
         LET cur == it @@ ("number" :> (idx[r] + 1))
             h0  == [hist[r] EXCEPT !.cfg_paths = @ \cup {cur.path},
                                    !.err0 = errors[r]]
         IN  /\ idx' = [idx EXCEPT ![r] = @ + 1]
             /\ steps' = [steps EXCEPT ![r] = <<>>]
             /\ received' = [received EXCEPT ![r] = <<>>]
             /\ \/ /\ ~Has(cur, "enabled")          \* KeyError at line 165, outside the try
                   /\ item' = [item EXCEPT ![r] = cur]
                   /\ exc' = [exc EXCEPT ![r] = TRUE]
                   /\ hist' = [hist EXCEPT ![r] = Faulted(h0)]
                   /\ last' = [last EXCEPT ![r] = "aborted"]
                   /\ Goto(r, "finally")
                \/ /\ Has(cur, "enabled") /\ ~Selected(cur, args[r])    \* continue
                   /\ item' = [item EXCEPT ![r] = cur]
                   /\ hist' = [hist EXCEPT ![r] =
                                 IF cur.enabled THEN [h0 EXCEPT !.left_enabled = TRUE]
                                 ELSE h0]
                   /\ last' = [last EXCEPT ![r] = "excluded"]
                   /\ Goto(r, "loop")
                   /\ UNCHANGED exc
                \/ /\ Has(cur, "enabled") /\ Selected(cur, args[r])
                   /\ item' = [item EXCEPT ![r] = ApplyDefaults(cur, args[r].debug)]
                   /\ hist' = [hist EXCEPT ![r] = h0]
                   /\ last' = [last EXCEPT ![r] = "running"]
                   /\ Goto(r, "before_check")
                   /\ UNCHANGED exc
    /\ UNCHANGED <<args, nItems, errors, paths_processed, exit_code, lock, conf, passwd>>

\* variant: a failed before_backup_check is counted but the item goes on
BeforeBackupCheckNoSkip(r) ==
    /\ pc[r] = "before_check"
    /\ \/ /\ ~Has(item[r], "before_backup_check")
          /\ Goto(r, Dispatch(item[r], args[r]))
          /\ hist' = [hist EXCEPT ![r] = Passed(@, item[r])]
          /\ UNCHANGED <<steps, errors, last>>
       \/ /\ Has(item[r], "before_backup_check")
          /\ \/ /\ Did(r, "before_backup_check", "ok")
                /\ Goto(r, Dispatch(item[r], args[r]))
                /\ hist' = [hist EXCEPT ![r] = Passed(@, item[r])]
                /\ UNCHANGED <<errors, last>>
             \/ /\ Did(r, "before_backup_check", "fail")
                /\ errors' = [errors EXCEPT ![r] = @ + 1]
                /\ hist' = [hist EXCEPT ![r] = CheckFailed(@)]
                /\ Goto(r, Dispatch(item[r], args[r]))
                /\ UNCHANGED last
             \/ Caught(r, "before_backup_check")
    /\ UNCHANGED <<args, nItems, idx, item, paths_processed, exc, exit_code, lock,
                   conf, passwd, received>>

\* variant: a failed before_backup_check records the path of the item
BeforeBackupCheckMarks(r) ==
    /\ pc[r] = "before_check"
    /\ \/ /\ ~Has(item[r], "before_backup_check")
          /\ Goto(r, Dispatch(item[r], args[r]))
          /\ hist' = [hist EXCEPT ![r] = Passed(@, item[r])]
          /\ UNCHANGED <<steps, errors, last, paths_processed>>
       \/ /\ Has(item[r], "before_backup_check")
          /\ \/ /\ Did(r, "before_backup_check", "ok")
                /\ Goto(r, Dispatch(item[r], args[r]))
                /\ hist' = [hist EXCEPT ![r] = Passed(@, item[r])]
                /\ UNCHANGED <<errors, last, paths_processed>>
             \/ /\ Skip(r, "before_backup_check")
                /\ paths_processed' = [paths_processed EXCEPT ![r] = Append(@, item[r].path)]
             \/ /\ Caught(r, "before_backup_check")
                /\ UNCHANGED paths_processed
    /\ UNCHANGED <<args, nItems, idx, item, exc, exit_code, lock, conf, passwd, received>>

\* lines 239-254: before_backup_check, skip the item if it fails
BeforeBackupCheck(r) ==
    /\ pc[r] = "before_check"
    /\ \/ /\ ~Has(item[r], "before_backup_check")
          /\ Goto(r, Dispatch(item[r], args[r]))
          /\ hist' = [hist EXCEPT ![r] = Passed(@, item[r])]
          /\ UNCHANGED <<steps, errors, last>>
       \/ /\ Has(item[r], "before_backup_check")
          /\ \/ /\ Did(r, "before_backup_check", "ok")
                /\ Goto(r, Dispatch(item[r], args[r]))
                /\ hist' = [hist EXCEPT ![r] = Passed(@, item[r])]
                /\ UNCHANGED <<errors, last>>
             \/ Skip(r, "before_backup_check")
             \/ Caught(r, "before_backup_check")
    /\ UNCHANGED <<args, nItems, idx, item, paths_processed, exc, exit_code, lock,
                   conf, passwd, received>>

(* ----------------------------- rotation -------------------------------- *)

\* variant: the path is recorded but never looked up
RotateDedupAlways(r) ==
    /\ pc[r] = "rot_dedup"
    /\ paths_processed' = [paths_processed EXCEPT ![r] = Append(@, item[r].path)]
    /\ hist' = [hist EXCEPT ![r] = [@ EXCEPT !.elig_paths = @ \cup {item[r].path}]]
    /\ Goto(r, "rot_conf")
    /\ UNCHANGED <<args, nItems, idx, item, errors, exc, exit_code, lock, conf, passwd,
                   steps, received, last>>

\* lines 268-272: process a path only once, record it before rotating
RotateDedup(r) ==
    /\ pc[r] = "rot_dedup"
    /\ \/ /\ InList(item[r].path, paths_processed[r])       \* already rotated: continue
          /\ hist' = [hist EXCEPT ![r] =
                        LET h1 == [@ EXCEPT !.elig_paths = @ \cup {item[r].path}]
                        IN  IF @.tool[item[r].path] > 0 THEN h1 ELSE Left(h1)]
          /\ last' = [last EXCEPT ![r] = "dedup"]
          /\ Goto(r, "loop")
          /\ UNCHANGED paths_processed
       \/ /\ ~InList(item[r].path, paths_processed[r])
          /\ paths_processed' = [paths_processed EXCEPT ![r] = Append(@, item[r].path)]
          /\ hist' = [hist EXCEPT ![r] =
                        [@ EXCEPT !.elig_paths = @ \cup {item[r].path}]]
          /\ Goto(r, "rot_conf")
          /\ UNCHANGED last
    /\ UNCHANGED <<args, nItems, idx, item, errors, exc, exit_code, lock, conf, passwd,
                   steps, received>>

\* lines 274-304: write the rotation config
RotateWriteConf(r) ==
    /\ pc[r] = "rot_conf"
    /\ \/ /\ conf' = RotationConf(item[r])
          /\ Ok(r, "conf", "rot_run")
       \/ /\ CaughtRotating(r, "conf")                  \* open() raises
          /\ UNCHANGED conf
    /\ UNCHANGED <<args, nItems, idx, item, paths_processed, exc, exit_code, lock,
                   passwd, received>>

\* variant: a non-zero exit of rsnapshot is raised out of the loop
RotateRunRaises(r) ==
    /\ pc[r] = "rot_run"
    /\ LET h1 == [hist[r] EXCEPT !.tool[item[r].path] = @ + 1]
       IN  \/ /\ Did(r, "rsnapshot", "ok")
              /\ hist' = [hist EXCEPT ![r] = h1]
              /\ last' = [last EXCEPT ![r] = "done"]
              /\ Goto(r, "loop")
              /\ UNCHANGED <<errors, exc>>
           \/ /\ Did(r, "rsnapshot", "fail")
              /\ errors' = [errors EXCEPT ![r] = @ + 1]
              /\ hist' = [hist EXCEPT ![r] = Troubled(h1)]
              /\ last' = [last EXCEPT ![r] = "aborted"]
              /\ exc' = [exc EXCEPT ![r] = TRUE]
              /\ Goto(r, "finally")
           \/ /\ CaughtRotating(r, "rsnapshot")
              /\ UNCHANGED exc
    /\ UNCHANGED <<args, nItems, idx, item, paths_processed, exit_code, lock,
                   conf, passwd, received>>

\* variant: a rotation that failed is forgotten, the path may be rotated again
RotateRunForgets(r) ==
    /\ pc[r] = "rot_run"
    /\ LET h1 == [hist[r] EXCEPT !.tool[item[r].path] = @ + 1]
           forgotten == [paths_processed EXCEPT ![r] =
                           SelectSeq(@, LAMBDA q : q # item[r].path)]
       IN  \/ /\ Did(r, "rsnapshot", "ok")
              /\ hist' = [hist EXCEPT ![r] = h1]
              /\ last' = [last EXCEPT ![r] = "done"]
              /\ Goto(r, "loop")
              /\ UNCHANGED <<errors, paths_processed>>
           \/ /\ Did(r, "rsnapshot", "fail")
              /\ errors' = [errors EXCEPT ![r] = @ + 1]
              /\ hist' = [hist EXCEPT ![r] = Troubled(h1)]
              /\ last' = [last EXCEPT ![r] = "done"]
              /\ paths_processed' = forgotten
              /\ Goto(r, "loop")
           \/ /\ CaughtRotating(r, "rsnapshot")
              /\ paths_processed' = forgotten
    /\ UNCHANGED <<args, nItems, idx, item, exc, exit_code, lock, conf, passwd, received>>

\* lines 306-317: rsnapshot -c conf hourly|daily|weekly|monthly
RotateRun(r) ==
    /\ pc[r] = "rot_run"
    /\ LET h1 == [hist[r] EXCEPT !.tool[item[r].path] = @ + 1]
       IN  \/ /\ Did(r, "rsnapshot", "ok")
              /\ hist' = [hist EXCEPT ![r] = h1]
              /\ last' = [last EXCEPT ![r] = "done"]
              /\ Goto(r, "loop")
              /\ UNCHANGED errors
           \/ /\ Did(r, "rsnapshot", "fail")
              /\ errors' = [errors EXCEPT ![r] = @ + 1]
              /\ hist' = [hist EXCEPT ![r] = Troubled(h1)]
              /\ last' = [last EXCEPT ![r] = "done"]
              /\ Goto(r, "loop")
           \/ CaughtRotating(r, "rsnapshot")            \* run_cmd raises
    /\ UNCHANGED <<args, nItems, idx, item, paths_processed, exc, exit_code, lock,
                   conf, passwd, received>>


(* ----------------------------- SSH sync -------------------------------- *)

\* variant: only the trailing newline and blanks are removed
HostnameReceivedRstrip(out) == RStrip(out)

\* line 405: hostname_received = stdout.lstrip().rstrip()
HostnameReceived(out) == RStrip(LStrip(out))

\* variant: the key authorization is tried for every host
SshCheckBootstrapsAny(r) ==
    /\ pc[r] = "ssh_check"
    /\ item' = [item EXCEPT ![r] = DeriveConnect(@, 22)]
    /\ \/ Ok(r, "ssh_check", "validate")
       \/ /\ Did(r, "ssh_check", "fail_loopback")
          /\ Goto(r, "bootstrap")
          /\ UNCHANGED <<errors, last, hist>>
       \/ Caught(r, "ssh_check")
    /\ UNCHANGED <<args, nItems, idx, paths_processed, exc, exit_code, lock,
                   conf, passwd, received>>

\* lines 322-397: derive connect_host/connect_port, check SSH without password
SshCheck(r) ==
    /\ pc[r] = "ssh_check"
    /\ item' = [item EXCEPT ![r] = DeriveConnect(@, 22)]
    /\ \/ Ok(r, "ssh_check", "validate")
       \/ /\ item[r].host = SELF_HOSTNAME              \* loopback: try to authorize the key
          /\ Did(r, "ssh_check", "fail_loopback")
          /\ Goto(r, "bootstrap")
          /\ UNCHANGED <<errors, last, hist>>
       \/ /\ item[r].host # SELF_HOSTNAME
          /\ Skip(r, "ssh_check")
       \/ Caught(r, "ssh_check")
    /\ UNCHANGED <<args, nItems, idx, paths_processed, exc, exit_code, lock,
                   conf, passwd, received>>

\* lines 344-375: the loopback authorization script
Bootstrap(r) ==
    /\ pc[r] = "bootstrap"
    /\ \/ Ok(r, "bootstrap", "ssh_recheck")
       \/ Skip(r, "bootstrap")
       \/ Caught(r, "bootstrap")
    /\ UNCHANGED <<args, nItems, idx, item, paths_processed, exc, exit_code, lock,
                   conf, passwd, received>>

\* lines 377-388: check SSH again after the loopback authorization
SshRecheck(r) ==
    /\ pc[r] = "ssh_recheck"
    /\ \/ Ok(r, "ssh_recheck", "validate")
       \/ Skip(r, "ssh_recheck")
       \/ Caught(r, "ssh_recheck")
    /\ UNCHANGED <<args, nItems, idx, item, paths_processed, exc, exit_code, lock,
                   conf, passwd, received>>

\* lines 399-418: compare the remote hostname with item["host"]
ValidateHostname(r) ==
    /\ pc[r] = "validate"
    /\ \/ \E out \in HostnameOutputs :
            /\ received' = [received EXCEPT ![r] = out]
            /\ \/ /\ HostnameReceived(out) = item[r].host
                  /\ Ok(r, "hostname", "exec_before")
               \/ /\ HostnameReceived(out) # item[r].host
                  /\ Skip(r, "hostname")
       \/ /\ Skip(r, "hostname")           \* the hostname command failed
          /\ UNCHANGED received
       \/ /\ Caught(r, "hostname")
          /\ UNCHANGED received
    /\ UNCHANGED <<args, nItems, idx, item, paths_processed, exc, exit_code, lock,
                   conf, passwd>>

\* variant: the config is written right after the pre-hook, for every type
AfterPreHookNoDump(it) == "ssh_conf"

\* lines 435-437: database types dump before the config is written
AfterPreHook(it) == IF it.type \in DbTypes THEN "dump" ELSE "ssh_conf"

\* lines 420-433: exec_before_rsync, a failure does not stop the item
ExecBeforeRsync(r) ==
    /\ pc[r] = "exec_before"
    /\ \/ /\ ~Has(item[r], "exec_before_rsync")
          /\ Goto(r, AfterPreHook(item[r]))
          /\ UNCHANGED <<steps, errors, last, hist>>
       \/ /\ Has(item[r], "exec_before_rsync")
          /\ \/ Ok(r, "exec_before_rsync", AfterPreHook(item[r]))
             \/ FailOn(r, "exec_before_rsync", AfterPreHook(item[r]))
             \/ Caught(r, "exec_before_rsync")
    /\ UNCHANGED <<args, nItems, idx, item, paths_processed, exc, exit_code, lock,
                   conf, passwd, received>>

\* variant: a failed dump is counted but the item goes on
RemoteDumpGoesOn(r) ==
    /\ pc[r] = "dump"
    /\ \/ Ok(r, "dump", "cleanup")
       \/ FailOn(r, "dump", "cleanup")
       \/ Caught(r, "dump")
    /\ UNCHANGED <<args, nItems, idx, item, paths_processed, exc, exit_code, lock,
                   conf, passwd, received>>

\* lines 721-732: run the remote dump script, skip the item if it fails
RemoteDump(r) ==
    /\ pc[r] = "dump"
    /\ \/ Ok(r, "dump", "cleanup")
       \/ Skip(r, "dump")
       \/ Caught(r, "dump")
    /\ UNCHANGED <<args, nItems, idx, item, paths_processed, exc, exit_code, lock,
                   conf, passwd, received>>

\* lines 734-791: remove partially downloaded dumps, a failure does not stop the item
RemovePartial(r) ==
    /\ pc[r] = "cleanup"
    /\ \/ Ok(r, "cleanup", "ssh_conf")
       \/ FailOn(r, "cleanup", "ssh_conf")
       \/ Caught(r, "cleanup")
    /\ UNCHANGED <<args, nItems, idx, item, paths_processed, exc, exit_code, lock,
                   conf, passwd, received>>

\* variant: a config that cannot be written is logged and the item goes on
SshWriteConfLax(r) ==
    /\ pc[r] = "ssh_conf"
    /\ \/ /\ conf' = SshConf(item[r])
          /\ Ok(r, "conf", "ssh_run")
       \/ /\ FailOn(r, "conf", "ssh_run")
          /\ UNCHANGED conf
    /\ UNCHANGED <<args, nItems, idx, item, paths_processed, exc, exit_code, lock,
                   passwd, received>>

\* lines 793-893: write the SSH sync config
SshWriteConf(r) ==
    /\ pc[r] = "ssh_conf"
    /\ \/ /\ conf' = SshConf(item[r])
          /\ Ok(r, "conf", "ssh_run")
       \/ /\ Caught(r, "conf")
          /\ UNCHANGED conf
    /\ UNCHANGED <<args, nItems, idx, item, paths_processed, exc, exit_code, lock,
                   passwd, received>>

\* variant: a non-zero exit of rsnapshot ends the item, the post-hook is not run
SshRunSkipsHook(r) ==
    /\ pc[r] = "ssh_run"
    /\ \/ Ok(r, "rsnapshot", "exec_after")
       \/ Skip(r, "rsnapshot")
       \/ Caught(r, "rsnapshot")
    /\ UNCHANGED <<args, nItems, idx, item, paths_processed, exc, exit_code, lock,
                   conf, passwd, received>>

\* lines 895-906: rsnapshot -c conf sync
SshRun(r) ==
    /\ pc[r] = "ssh_run"
    /\ \/ Ok(r, "rsnapshot", "exec_after")
       \/ FailOn(r, "rsnapshot", "exec_after")
       \/ Caught(r, "rsnapshot")
    /\ UNCHANGED <<args, nItems, idx, item, paths_processed, exc, exit_code, lock,
                   conf, passwd, received>>

\* lines 908-921: exec_after_rsync, the last step of the SSH branch
ExecAfterRsync(r) ==
    /\ pc[r] = "exec_after"
    /\ \/ /\ ~Has(item[r], "exec_after_rsync")
          /\ last' = [last EXCEPT ![r] = "done"]
          /\ Goto(r, "loop")
          /\ UNCHANGED <<steps, errors, hist>>
       \/ /\ Has(item[r], "exec_after_rsync")
          /\ \/ Done(r, "exec_after_rsync", "ok", 0)
             \/ Done(r, "exec_after_rsync", "fail", 1)
             \/ Caught(r, "exec_after_rsync")
    /\ UNCHANGED <<args, nItems, idx, item, paths_processed, exc, exit_code, lock,
                   conf, passwd, received>>

(* ----------------------------- native sync ----------------------------- *)

\* variant: an item without connect_password is skipped without an error
NativeCheckPasswordSilent(r) ==
    /\ pc[r] = "native_check"
    /\ item' = [item EXCEPT ![r] = DeriveConnect(@, 873)]
    /\ \/ /\ ~Has(item[r], "connect_password")
          /\ hist' = [hist EXCEPT ![r] = Refused(@)]
          /\ last' = [last EXCEPT ![r] = "skipped"]
          /\ Goto(r, "loop")
          /\ UNCHANGED errors
       \/ /\ Has(item[r], "connect_password")
          /\ Goto(r, "native_passwd")
          /\ UNCHANGED <<errors, last, hist>>
    /\ UNCHANGED <<args, nItems, idx, paths_processed, exc, exit_code, lock,
                   conf, passwd, steps, received>>

\* lines 923-936: derive connect_host/connect_port, require connect_password
NativeCheckPassword(r) ==
    /\ pc[r] = "native_check"
    /\ item' = [item EXCEPT ![r] = DeriveConnect(@, 873)]
    /\ \/ /\ ~Has(item[r], "connect_password")
          /\ errors' = [errors EXCEPT ![r] = @ + 1]
          /\ hist' = [hist EXCEPT ![r] = Refused(@)]
          /\ last' = [last EXCEPT ![r] = "skipped"]
          /\ Goto(r, "loop")
       \/ /\ Has(item[r], "connect_password")
          /\ Goto(r, "native_passwd")
          /\ UNCHANGED <<errors, last, hist>>
    /\ UNCHANGED <<args, nItems, idx, paths_processed, exc, exit_code, lock,
                   conf, passwd, steps, received>>

\* lines 943-944: the remote .backup check runs only when native_txt_check is set
AfterPasswd(it) == IF it.native_txt_check THEN "native_txt" ELSE "native_conf"

\* lines 938-941: save connect_password to RSNAPSHOT_PASSWD, chmod 0600
NativeWritePasswd(r) ==
    /\ pc[r] = "native_passwd"
    /\ \/ /\ passwd' = item[r].connect_password
          /\ Ok(r, "passwd_write", AfterPasswd(item[r]))
       \/ /\ Caught(r, "passwd_write")                 \* open() raises
          /\ UNCHANGED passwd
       \/ /\ passwd' = item[r].connect_password        \* os.chmod() raises
          /\ Caught(r, "passwd_write")
    /\ UNCHANGED <<args, nItems, idx, item, paths_processed, exc, exit_code, lock,
                   conf, received>>

\* lines 943-962: the remote .backup existence check, skip the item if it fails
NativeTxtCheck(r) ==
    /\ pc[r] = "native_txt"
    /\ \/ Ok(r, "txt_check", "native_conf")
       \/ Skip(r, "txt_check")
       \/ Caught(r, "txt_check")
    /\ UNCHANGED <<args, nItems, idx, item, paths_processed, exc, exit_code, lock,
                   conf, passwd, received>>

\* lines 964-1002: write the native sync config
NativeWriteConf(r) ==
    /\ pc[r] = "native_conf"
    /\ \/ /\ conf' = NativeConf(item[r])
          /\ Ok(r, "conf", "native_run")
       \/ /\ Caught(r, "conf")
          /\ UNCHANGED conf
    /\ UNCHANGED <<args, nItems, idx, item, paths_processed, exc, exit_code, lock,
                   passwd, received>>

\* lines 1004-1018: [timeout ...] rsnapshot -c conf sync
NativeRun(r) ==
    /\ pc[r] = "native_run"
    /\ \/ Ok(r, "rsnapshot", "native_rm")
       \/ FailOn(r, "rsnapshot", "native_rm")
       \/ Caught(r, "rsnapshot")
    /\ UNCHANGED <<args, nItems, idx, item, paths_processed, exc, exit_code, lock,
                   conf, passwd, received>>

\* lines 1020-1021: os.remove(RSNAPSHOT_PASSWD), the last step of the native branch
NativeRemovePasswd(r) ==
    /\ pc[r] = "native_rm"
    /\ passwd' = ABSENT
    /\ Done(r, "passwd_remove", "ok", 0)
    /\ UNCHANGED <<args, nItems, idx, item, paths_processed, exc, exit_code, lock,
                   conf, received>>

\* lines 1023-1025: unknown item type: errors += 1
UnknownType(r) ==
    /\ pc[r] = "unknown_type"
    /\ errors' = [errors EXCEPT ![r] = @ + 1]
    /\ hist' = [hist EXCEPT ![r] = Refused(@)]
    /\ last' = [last EXCEPT ![r] = "skipped"]
    /\ Goto(r, "loop")
    /\ UNCHANGED <<args, nItems, idx, item, paths_processed, exc, exit_code, lock,
                   conf, passwd, steps, received>>

(* ----------------------------- loopback authorization ---------------- *)

\* runs of the authorization script considered
MaxBootRuns == 3

\* the line ssh-keygen writes to /root/.ssh/id_rsa.pub, and two other keys
PubKey == <<"K">>
OtherKeys == {<<"J">>, <<"L">>}

\* cat /root/.ssh/id_rsa.pub
PubFile == PubKey \o <<"\n">>

\* index of the first newline of s from i on, 0 if none
RECURSIVE NewlineAt(_, _)
NewlineAt(s, i) == IF i > Len(s) THEN 0
                   ELSE IF s[i] = "\n" THEN i ELSE NewlineAt(s, i + 1)

\* the lines of a text, as grep reads them
RECURSIVE Lines(_)
Lines(s) ==
    IF s = <<>> THEN <<>>
    ELSE IF NewlineAt(s, 1) = 0 THEN <<s>>
    ELSE <<SubSeq(s, 1, NewlineAt(s, 1) - 1)>>
         \o Lines(SubSeq(s, NewlineAt(s, 1) + 1, Len(s)))

\* "$(cat file)": the content without its trailing newlines
RECURSIVE CommandSubst(_)
CommandSubst(s) == IF s # <<>> /\ s[Len(s)] = "\n"
                   THEN CommandSubst(SubSeq(s, 1, Len(s) - 1)) ELSE s

\* pat occurs in line
Contains(line, pat) ==
    \E i \in 0..(Len(line) - Len(pat)) : SubSeq(line, i + 1, i + Len(pat)) = pat

\* grep -q pat file: some line of the file contains pat
GrepQ(pat, text) == \E i \in 1..Len(Lines(text)) : Contains(Lines(text)[i], pat)

\* lines 350-352: ssh-keygen if there is no id_rsa.pub
KeygenStep(st) == IF ~st.pub THEN [st EXCEPT !.pub = TRUE] ELSE st

\* lines 354-357: create authorized_keys from id_rsa.pub if it does not exist
CreateStep(st) ==
    IF st.keys = ABSENT THEN [st EXCEPT !.keys = PubFile, !.mode = "600"] ELSE st

\* lines 359-362: append id_rsa.pub unless grep finds it, chmod 600
AppendStep(st) ==
    IF ~GrepQ(CommandSubst(PubFile), st.keys)
    THEN [st EXCEPT !.keys = @ \o PubFile, !.mode = "600"]
    ELSE st

\* lines 345-363: the loopback authorization script, every command exiting 0
LoopbackScript(st) == AppendStep(CreateStep(KeygenStep(st)))

\* lines 365-368: run_cmd(script) returns 0
RunLoopbackScript ==
    /\ boot_runs < MaxBootRuns
    /\ LET st == LoopbackScript([pub |-> id_rsa_pub, keys |-> authorized_keys,
                                 mode |-> authorized_mode])
       IN  /\ id_rsa_pub' = st.pub
           /\ authorized_keys' = st.keys
           /\ authorized_mode' = st.mode
    /\ keys_before' = authorized_keys
    /\ boot_runs' = boot_runs + 1
    /\ UNCHANGED <<main_vars, dump_vars, prep_vars, part_vars>>

\* the lines of ls, each ended by a newline
RECURSIVE JoinLines(_)
JoinLines(ls) == IF ls = <<>> THEN <<>>
                 ELSE Head(ls) \o <<"\n">> \o JoinLines(Tail(ls))

\* authorized_keys files: up to two different keys, the last line with or
\* without its newline
KeysPool(keys) ==
    LET seqs == {<<>>} \cup { <<k>> : k \in keys }
                \cup { <<p[1], p[2]>> : p \in { q \in keys \X keys : q[1] # q[2] } }
    IN  { JoinLines(ls) : ls \in seqs }
        \cup { CommandSubst(JoinLines(ls)) : ls \in seqs }

\* /root/.ssh before the first run of the script: a key that was never
\* generated is in no authorized_keys file
InitBoot ==
    /\ MainIdle
    /\ DumpIdle
    /\ PrepIdle
    /\ PartIdle
    /\ id_rsa_pub \in BOOLEAN
    /\ authorized_keys \in {ABSENT} \cup
           KeysPool(IF id_rsa_pub THEN OtherKeys \cup {PubKey} ELSE OtherKeys)
    /\ authorized_mode \in (IF authorized_keys = ABSENT THEN {"none"} ELSE {"600", "644"})
    /\ boot_runs = 0
    /\ keys_before = ABSENT

NextBoot == RunLoopbackScript

SpecBoot == InitBoot /\ [][NextBoot]_vars

(* ----------------------------- remote dump script -------------------- *)

DumpVariants == {"xtrabackup", "mysqldump", "postgresql", "mongodb"}

\* variant: the old dumps are expired at the top of the script
ScriptCommandsExpireFirst(variant) ==
    <<"mkdir_p", "chmod", "cd", "expire", "wait", "mkdir_lock", "trap">>
    \o (IF variant = "postgresql" THEN <<"globals">> ELSE <<>>)
    \o <<"dump">>

\* lines 499-508, 564-573, 629-639, 699-708: the commands of the remote
\* script, in the order of the template
ScriptCommands(variant) ==
    <<"mkdir_p", "chmod", "wait", "mkdir_lock", "trap", "cd", "expire">>
    \o (IF variant = "postgresql" THEN <<"globals">> ELSE <<>>)
    \o <<"dump">>

\* the command script s is at
Command(s) == ScriptCommands(script[s].variant)[script[s].at]

\* variant: mkdir -p, which also succeeds on a directory that exists
MkdirSucceedsAlways(dir) == TRUE

\* mkdir {dump_dir}/dump.lock succeeds only if the directory does not exist
MkdirSucceeds(dir) == ~dir.lock

\* variant: the trap does not remove the directory
ExitTrapNone(dir, trap) == dir

\* variant: the trap is in force from the start of the script
ExitTrapAlways(dir, trap) == [dir EXCEPT !.lock = FALSE, !.owner = 0]

\* the trap registered for exit (signal 0): rm -rf {dump_dir}/dump.lock
ExitTrap(dir, trap) ==
    IF trap THEN [dir EXCEPT !.lock = FALSE, !.owner = 0] ELSE dir

\* the effect on the dump directory of a command that returns 0
Effect(cmd, dir, s) ==
    CASE cmd = "mkdir_p"    -> IF dir.exists THEN dir
                               ELSE [dir EXCEPT !.exists = TRUE, !.mode = "755"]
      [] cmd = "chmod"      -> [dir EXCEPT !.mode = "700"]
      [] cmd = "mkdir_lock" -> [dir EXCEPT !.lock = TRUE, !.owner = s]
      [] OTHER              -> dir

\* the commands of the script that may return non-zero whatever the lock
Fallible == {"mkdir_p", "chmod", "cd", "expire", "globals", "dump"}

\* ssh ... '<script>' is started
StartScript(s) ==
    /\ script[s].state = "idle"
    /\ \E v \in DumpVariants :
         script' = [script EXCEPT ![s] = [@ EXCEPT !.variant = v, !.state = "running",
                                                   !.at = 1]]
    /\ UNCHANGED <<dump_dir, main_vars, boot_vars, prep_vars, part_vars>>

\* a command returns 0 and the script goes on; after the last command the
\* shell leaves with status 0
CommandRuns(s) ==
    /\ script[s].state = "running"
    /\ Command(s) # "wait"
    /\ Command(s) = "mkdir_lock" => MkdirSucceeds(dump_dir)
    /\ dump_dir' = Effect(Command(s), dump_dir, s)
    /\ script' = [script EXCEPT ![s] =
          LET last_one == script[s].at = Len(ScriptCommands(script[s].variant))
          IN  [@ EXCEPT !.log = Append(@, Command(s)),
                        !.trap = @ \/ Command(s) = "trap",
                        !.at = IF last_one THEN @ ELSE @ + 1,
                        !.state = IF last_one THEN "exiting" ELSE "running",
                        !.rc = IF last_one THEN 0 ELSE -1]]
    /\ UNCHANGED <<main_vars, boot_vars, prep_vars, part_vars>>

\* while [[ -d {dump_dir}/dump.lock ]]; do sleep 5; done
WaitLoop(s) ==
    /\ script[s].state = "running"
    /\ Command(s) = "wait"
    /\ \/ /\ dump_dir.lock                         \* sleep 5, test again
          /\ script' = [script EXCEPT ![s] = [@ EXCEPT !.polled = TRUE]]
       \/ /\ ~dump_dir.lock                        \* the loop ends
          /\ script' = [script EXCEPT ![s] = [@ EXCEPT !.log = Append(@, "wait"),
                                                        !.at = @ + 1]]
    /\ UNCHANGED <<dump_dir, main_vars, boot_vars, prep_vars, part_vars>>

\* set -e, set -o pipefail: a command returns non-zero and the shell leaves
\* at once; the exit trap runs if it was registered
CommandFails(s) ==
    /\ script[s].state = "running"
    /\ \/ Command(s) \in Fallible
       \/ Command(s) = "mkdir_lock" /\ ~MkdirSucceeds(dump_dir)
    /\ dump_dir' = ExitTrap(dump_dir, script[s].trap)
    /\ script' = [script EXCEPT ![s] = [@ EXCEPT !.state = "exited", !.rc = 1]]
    /\ UNCHANGED <<main_vars, boot_vars, prep_vars, part_vars>>

\* the shell leaves after the last command: the exit trap runs
ExitScript(s) ==
    /\ script[s].state = "exiting"
    /\ dump_dir' = ExitTrap(dump_dir, script[s].trap)
    /\ script' = [script EXCEPT ![s] = [@ EXCEPT !.state = "exited"]]
    /\ UNCHANGED <<main_vars, boot_vars, prep_vars, part_vars>>

\* The dump directory before the scripts start: missing, or there from an
\* earlier run, then possibly with a dump.lock whose script is gone (killed,
\* or the host was restarted, before the trap could run).
InitDump ==
    /\ MainIdle
    /\ BootIdle
    /\ PrepIdle
    /\ PartIdle
    /\ script = [s \in Scripts |-> NoScript]
    /\ dump_dir \in {NoDumpDir}
          \cup { [exists |-> TRUE, mode |-> m, lock |-> l, owner |-> 0] :
                     m \in {"700", "755"}, l \in BOOLEAN }

NextDump ==
    \E s \in Scripts :
        \/ StartScript(s)
        \/ CommandRuns(s)
        \/ WaitLoop(s)
        \/ CommandFails(s)
        \/ ExitScript(s)

SpecDump == InitDump /\ [][NextDump]_vars

\* every script that can take a step eventually takes one
SpecDumpFair ==
    /\ SpecDump
    /\ \A s \in Scripts :
          WF_vars(StartScript(s) \/ CommandRuns(s) \/ WaitLoop(s)
                     \/ CommandFails(s) \/ ExitScript(s))

(* ----------------------------- per-database dump step ----------------- *)

\* versions of a database's content considered
MaxVer == 2

\* invocations of the dump tool per database considered
MaxCalls == 2

\* variant: every template tests for a directory
ArtifactTestDir(variant) == "-d"

\* lines 461, 477: [[ ! -d ...xtrabackup ]]; lines 528, 543, 593, 606, 659, 676:
\* [[ ! -f ...gz ]]
ArtifactTest(variant) == IF variant = "xtrabackup" THEN "-d" ELSE "-f"

\* [[ -f path ]] / [[ -d path ]]
TestHolds(test, entry) ==
    \/ test = "-f" /\ entry.kind = "file"
    \/ test = "-d" /\ entry.kind = "dir"

\* what the dump tool of the variant leaves as the artifact
ArtifactKind(variant) == IF variant = "xtrabackup" THEN "dir" ELSE "file"

\* the artifact a dump of version v that ran to its end leaves
Dumped(variant, v) == [kind |-> ArtifactKind(variant), content |-> v]

\* the artifact a dump that stopped half-way leaves: `> file` and tar create
\* the file, xtrabackup creates the target directory, before any data is written
Partial(variant) == [kind |-> ArtifactKind(variant), content |-> 0]

\* the step is recorded
Stepped(d, invoked) ==
    dp_last' = [db |-> d, existed |-> dp_art[d] # NoArtifact,
                invoked |-> invoked, before |-> dp_art[d]]

\* if [[ ! -f {dump_dir}/{db}.gz ]]; then <dump tool> ...; fi
DumpStep(d) ==
    /\ dp_variant \in DumpVariants
    /\ \/ /\ TestHolds(ArtifactTest(dp_variant), dp_art[d])     \* nothing to do
          /\ Stepped(d, FALSE)
          /\ UNCHANGED <<dp_art, dp_work, dp_calls>>
       \/ /\ ~TestHolds(ArtifactTest(dp_variant), dp_art[d])
          /\ dp_calls[d] < MaxCalls
          /\ Stepped(d, TRUE)
          /\ dp_calls' = [dp_calls EXCEPT ![d] = @ + 1]
          /\ \/ /\ dp_art' = [dp_art EXCEPT ![d] = Dumped(dp_variant, dp_ver[d])]
                /\ dp_work' = [dp_work EXCEPT ![d] = FALSE]      \* rm -rf {dump_dir}/{db}
             \/ /\ dp_art' = [dp_art EXCEPT ![d] = Partial(dp_variant)]
                /\ dp_work' = [dp_work EXCEPT ![d] = dp_variant = "mongodb"]
             \/ /\ dp_variant = "mongodb"                       \* mongodump fails
                /\ dp_work' \in { [dp_work EXCEPT ![d] = b] : b \in BOOLEAN }
                /\ UNCHANGED dp_art
             \/ /\ dp_variant # "mongodb"                       \* the artifact cannot be created
                /\ UNCHANGED <<dp_art, dp_work>>
    /\ UNCHANGED <<dp_variant, dp_ver>>
    /\ UNCHANGED <<main_vars, boot_vars, dump_vars, prep_vars>>

\* the content of a database changes on the server
DbChanges(d) ==
    /\ dp_variant \in DumpVariants
    /\ dp_ver[d] < MaxVer
    /\ dp_ver' = [dp_ver EXCEPT ![d] = @ + 1]
    /\ UNCHANGED <<dp_variant, dp_art, dp_work, dp_calls, dp_last>>
    /\ UNCHANGED <<main_vars, boot_vars, dump_vars, prep_vars>>

\* lines 507, 572, 637, 707: find ... -mmin +{mmin} removes an artifact that
\* is older than the window
Expire(d) ==
    /\ dp_variant \in DumpVariants
    /\ dp_art[d] # NoArtifact
    /\ dp_art' = [dp_art EXCEPT ![d] = NoArtifact]
    /\ dp_last' = NoStep
    /\ UNCHANGED <<dp_variant, dp_work, dp_ver, dp_calls>>
    /\ UNCHANGED <<main_vars, boot_vars, dump_vars, prep_vars>>

InitPart ==
    /\ MainIdle
    /\ BootIdle
    /\ DumpIdle
    /\ PrepIdle
    /\ dp_variant \in DumpVariants
    /\ dp_art = [d \in Databases |-> NoArtifact]
    /\ dp_work = [d \in Databases |-> FALSE]
    /\ dp_ver = [d \in Databases |-> 1]
    /\ dp_calls = [d \in Databases |-> 0]
    /\ dp_last = NoStep

NextPart ==
    \E d \in Databases :
        \/ DumpStep(d)
        \/ DbChanges(d)
        \/ Expire(d)

SpecPart == InitPart /\ [][NextPart]_vars

(* ----------------------------- item preparation ----------------------- *)

\* the defaults are applied at most this many times to one dict
MaxPasses == 2

\* values a YAML document may give to optional keys
Supplied ==
    [retain_daily |-> 0, validate_hostname |-> FALSE, native_10h_limit |-> FALSE,
     rsync_args |-> <<"-z">>, verbosity_level |-> 4, retain_hourly |-> 0]

\* the keys of Supplied in ks, with their values
SuppliedOn(ks) == [k \in ks |-> Supplied[k]]

\* the items of ItemPool that pass line 165, and RSYNC_SSH items for each
\* kind of source
PrepBase ==
    { it \in ItemPool : Has(it, "enabled") /\ it.enabled }
    \cup { Item("RSYNC_SSH", DB1, P1, Conn1, <<"ALL">>)
             @@ ("exclude" :> << <<"/home">>, <<"/root">> >>),
           Item("RSYNC_SSH", DB1, P1, Conn1, <<"ALL">>),
           Item("RSYNC_SSH", DB2, P2, Conn2, <<"CENTOS">>)
             @@ ("exclude" :> << <<"/var/lib/rpm">>, <<"/srv">> >>) @@ ("retain_hourly" :> 0),
           Item("RSYNC_SSH", DB2, P2, Conn2, <<"DEBIAN">>) }

\* the items a YAML document may hold: optional keys given or left out
PrepPool ==
    { SuppliedOn(ks) @@ it @@ ("number" :> 1) :
        it \in PrepBase, ks \in SUBSET (DOMAIN Supplied) }

InitPrep ==
    /\ MainIdle
    /\ BootIdle
    /\ DumpIdle
    /\ PartIdle
    /\ prep_in \in PrepPool
    /\ prep_debug \in BOOLEAN
    /\ prep_item = prep_in
    /\ prep_passes = 0
    /\ prep_conf = NoConf
    /\ prep_script = NoDumpScript
    /\ prep_again = NoConf

\* lines 181-237 once more on the same dict
PrepDefaults ==
    /\ prep_passes < MaxPasses
    /\ prep_conf = NoConf /\ prep_script = NoDumpScript
    /\ prep_item' = ApplyDefaults(prep_item, prep_debug)
    /\ prep_passes' = prep_passes + 1
    /\ UNCHANGED <<prep_in, prep_debug, prep_conf, prep_script, prep_again>>
    /\ UNCHANGED <<main_vars, boot_vars, dump_vars, part_vars>>

\* lines 447-449, 521, 586, 652: the script template the item's type selects
ScriptVariant(it) ==
    CASE it.type = "MYSQL_SSH" -> IF IsXtrabackup(it) THEN "xtrabackup" ELSE "mysqldump"
      [] it.type = "POSTGRESQL_SSH" -> "postgresql"
      [] it.type = "MONGODB_SSH" -> "mongodb"

\* the dump directory the template is filled with
DumpDirOf(it) ==
    CASE it.type = "MYSQL_SSH" -> it.mysql_dump_dir
      [] it.type = "POSTGRESQL_SSH" -> it.postgresql_dump_dir
      [] it.type = "MONGODB_SSH" -> it.mongodb_dump_dir

\* variant: dumps are kept for 59 minutes only when hourly snapshots are retained
MminByValue(it) ==
    IF Has(it, "retain_hourly") /\ it.retain_hourly > 0 THEN <<"59">> ELSE <<"720">>

\* lines 517, 582, 648, 717: mmin="59" if "retain_hourly" in item else "720"
Mmin(it) == IF Has(it, "retain_hourly") THEN <<"59">> ELSE <<"720">>

\* lines 507, 572, 637, 707: the find command that removes old dumps
ExpireCommand(it) ==
    <<"find ">> \o DumpDirOf(it) \o
    (CASE ScriptVariant(it) = "xtrabackup" -> <<" -type d -name \"*.xtrabackup\"">>
       [] ScriptVariant(it) = "mongodb"    -> <<" -type f -name \"*.tar.gz\"">>
       [] OTHER                            -> <<" -type f -name \"*.gz\"">>)
    \o <<" -mmin +">> \o Mmin(it) \o
    (IF ScriptVariant(it) = "xtrabackup" THEN <<" -exec rm -rf {} +">> ELSE <<" -delete">>)

\* lines 447-719: the remote dump script of a database item
PrepScript ==
    /\ prep_passes >= 1
    /\ prep_script = NoDumpScript
    /\ prep_item.type \in DbTypes
    /\ prep_script' = [variant |-> ScriptVariant(prep_item),
                       expire  |-> ExpireCommand(prep_item)]
    /\ UNCHANGED <<prep_in, prep_debug, prep_item, prep_passes, prep_conf, prep_again>>
    /\ UNCHANGED <<main_vars, boot_vars, dump_vars, part_vars>>

\* the config the run writes for the item: lines 274-304 in a rotation mode,
\* lines 322-331 and 856-893 or lines 923-936 and 964-1002 in sync mode
PrepEmit ==
    /\ prep_passes >= 1
    /\ prep_conf = NoConf
    /\ \E mode \in Modes :
         \/ /\ mode \in RotateModes
            /\ prep_conf' = [kind |-> "rotation", lines |-> RotationConf(prep_item)]
            /\ UNCHANGED prep_item
         \/ /\ mode = "sync" /\ prep_item.type \in SshTypes
            /\ prep_item' = DeriveConnect(prep_item, 22)
            /\ prep_conf' = [kind |-> "ssh", lines |-> SshConf(DeriveConnect(prep_item, 22))]
         \/ /\ mode = "sync" /\ prep_item.type \in NativeTypes
            /\ Has(prep_item, "connect_password")
            /\ prep_item' = DeriveConnect(prep_item, 873)
            /\ prep_conf' = [kind |-> "native", lines |-> NativeConf(DeriveConnect(prep_item, 873))]
    /\ UNCHANGED <<prep_in, prep_debug, prep_passes, prep_script, prep_again>>
    /\ UNCHANGED <<main_vars, boot_vars, dump_vars, part_vars>>

\* the same lines once more on the dict the first emission left: a later run
\* in the same mode, with the same debug setting, over the same item
PrepEmitAgain ==
    /\ prep_conf # NoConf
    /\ prep_again = NoConf
    /\ \/ /\ prep_conf.kind = "rotation"
          /\ prep_again' = [kind |-> "rotation", lines |-> RotationConf(prep_item)]
          /\ UNCHANGED prep_item
       \/ /\ prep_conf.kind = "ssh"
          /\ prep_item' = DeriveConnect(prep_item, 22)
          /\ prep_again' = [kind |-> "ssh", lines |-> SshConf(DeriveConnect(prep_item, 22))]
       \/ /\ prep_conf.kind = "native"
          /\ prep_item' = DeriveConnect(prep_item, 873)
          /\ prep_again' = [kind |-> "native",
                            lines |-> NativeConf(DeriveConnect(prep_item, 873))]
    /\ UNCHANGED <<prep_in, prep_debug, prep_passes, prep_conf, prep_script>>
    /\ UNCHANGED <<main_vars, boot_vars, dump_vars, part_vars>>

NextPrep ==
    \/ PrepDefaults
    \/ PrepEmit
    \/ PrepEmitAgain
    \/ PrepScript

SpecPrep == InitPrep /\ [][NextPrep]_vars

(* ----------------------------- specification --------------------------- *)

\* The end of a process that has exited touches nothing another run can see:
\* it is taken before another run's next step.
Next ==
    \E r \in Runs :
      /\ UNCHANGED <<boot_vars, dump_vars, prep_vars, part_vars>>
      /\ \A q \in Runs \ {r} : pc[q] # "exited"
      /\ \/ LoadConfig(r)
         \/ AcquireLock(r)
         \/ StartItem(r)
         \/ BeforeBackupCheck(r)
         \/ RotateDedup(r)
         \/ RotateWriteConf(r)
         \/ RotateRun(r)
         \/ SshCheck(r)
         \/ Bootstrap(r)
         \/ SshRecheck(r)
         \/ ValidateHostname(r)
         \/ ExecBeforeRsync(r)
         \/ RemoteDump(r)
         \/ RemovePartial(r)
         \/ SshWriteConf(r)
         \/ SshRun(r)
         \/ ExecAfterRsync(r)
         \/ NativeCheckPassword(r)
         \/ NativeWritePasswd(r)
         \/ NativeTxtCheck(r)
         \/ NativeWriteConf(r)
         \/ NativeRun(r)
         \/ NativeRemovePasswd(r)
         \/ UnknownType(r)
         \/ EndLoop(r)
         \/ Finally(r)
         \/ Reap(r)

Spec == Init /\ [][Next]_vars

SpecTwo == InitTwo /\ [][Next]_vars

SpecThree == InitThree /\ [][Next]_vars

(* ----------------------------- properties ------------------------------ *)

\* the run is past the item loop
LeftLoop(r) == pc[r] \in {"finally", "exited"}

\* the run is between lock.acquire() and the end of the for loop
InLoop(r) == pc[r] \notin {"absent", "load", "lock", "finally", "exited", "gone"}

\* the run is between two items, or past the loop: the item taken last is over
ItemOver(r) == pc[r] = "loop" \/ LeftLoop(r)

\* the steps of the current item named name
StepsNamed(r, name) == { i \in 1..Len(steps[r]) : steps[r][i][1] = name }

\* the current item's last step is <<name, rc>>
EndsWith(r, name, rc) ==
    /\ steps[r] # <<>>
    /\ steps[r][Len(steps[r])] = <<name, rc>>

\* the steps of the current item that added to the error counter
Counted(r) == { i \in 1..Len(steps[r]) : steps[r][i][2] \in {"fail", "fault"} }

\* C1: in a run that holds the lock, an exception raised at any step of an
\* item, the enabled/filter check included, adds to the error counter and
\* never ends the loop before the last item has been taken.
C1_FaultNeverAbortsRun ==
    \A r \in Runs :
        hist[r].faulted =>
            /\ errors[r] > 0
            /\ LeftLoop(r) => idx[r] = nItems[r]

\* C2: of two runs started on the same host at most one is inside the item
\* loop, and it holds the lock; the run that finds the lock held fails at
\* once, takes no item, writes neither RSNAPSHOT_CONF nor RSNAPSHOT_PASSWD
\* and exits with code 1.
C2_LockExcludesSecondRun ==
    /\ \A r, q \in Runs : (InLoop(r) /\ InLoop(q)) => r = q
    /\ \A r \in Runs : InLoop(r) => lock = r
    /\ \A r \in Runs :
          last[r] = "locked_out" =>
              /\ LeftLoop(r)
              /\ idx[r] = 0
              /\ item[r] = NoItem
              /\ steps[r] = <<>>
              /\ errors[r] = -1
              /\ pc[r] = "exited" => exit_code[r] = 1

\* C2 witness: one run has exited with code 1 on the held lock while the
\* other is in the middle of an item
C2_Witness ==
    \E r, q \in Runs :
        /\ r # q
        /\ last[r] = "locked_out" /\ pc[r] = "exited" /\ exit_code[r] = 1
        /\ InLoop(q) /\ pc[q] # "loop" /\ lock = q

\* C3: a run that acquired the lock does not hold it once the process has
\* exited, whether the loop ended without errors, with errors, or an
\* exception left the loop.
C3_LockReleasedOnExit ==
    \A r \in Runs : pc[r] \in {"exited", "gone"} => lock # r

\* C3 witness: a run that had the lock exits on an exception that left the
\* loop, and the lock is free
C3_Witness ==
    \E r \in Runs :
        /\ pc[r] = "exited" /\ errors[r] >= 0
        /\ last[r] = "aborted" /\ idx[r] < nItems[r]
        /\ lock = 0

\* C4: once the processing of an item is over, and so after the run,
\* RSNAPSHOT_PASSWD is absent whatever the outcome of the item.
C4_PasswdAbsentAfterItem ==
    \A r \in Runs : (errors[r] >= 0 /\ ItemOver(r)) => passwd = ABSENT

C6_OneCheckFailsAllEnabled ==
    \A r \in Runs :
        /\ EndsWith(r, "before_backup_check", "fail") =>
               (Len(steps[r]) = 1 /\ ItemOver(r))
        /\ (pc[r] = "exited" /\ hist[r].trouble = "one_check" /\ ~hist[r].cond) =>
               /\ errors[r] = 1
               /\ exit_code[r] = 1
               /\ ~hist[r].left_enabled

\* C6 amended: the same, where the items processed to the end are the other
\* enabled items that match the --item-number and --host filters.
C6_OneCheckFailsAllSelected ==
    \A r \in Runs :
        /\ EndsWith(r, "before_backup_check", "fail") =>
               (Len(steps[r]) = 1 /\ ItemOver(r))
        /\ (pc[r] = "exited" /\ hist[r].trouble = "one_check" /\ ~hist[r].cond) =>
               /\ errors[r] = 1
               /\ exit_code[r] = 1
               /\ ~hist[r].left_selected

\* C6 witness: three items, the check of an earlier one failed, the last one
\* was processed to the end, the run exited with one error and code 1
C6_Witness ==
    \E r \in Runs :
        /\ pc[r] = "exited" /\ nItems[r] = 3 /\ idx[r] = 3
        /\ hist[r].trouble = "one_check" /\ ~hist[r].cond
        /\ last[r] = "done" /\ steps[r] # <<>>
        /\ errors[r] = 1 /\ exit_code[r] = 1

\* the for loop took every item and no exception left it
LoopCompleted(r) ==
    /\ errors[r] >= 0
    /\ idx[r] = nItems[r]
    /\ last[r] # "aborted"

\* C7: the exit code is 0 exactly when the configuration is disabled or the
\* loop completed with errors = 0; it is 1 when an item reported an error,
\* the lock was held, or an exception was not handled.
C7_ExitCode ==
    \A r \in Runs :
        pc[r] = "exited" =>
            /\ exit_code[r] \in {0, 1}
            /\ exit_code[r] = 0 <=>
                   (last[r] = "disabled" \/ (LoopCompleted(r) /\ errors[r] = 0))
            /\ (errors[r] > 0 \/ last[r] \in {"locked_out", "load_failed", "aborted"})
                   => exit_code[r] = 1

\* C7 witness: a run of three items, the last one synced, exits with code 0
C7_Witness ==
    \E r \in Runs :
        /\ pc[r] = "exited" /\ exit_code[r] = 0
        /\ nItems[r] = 3 /\ LoopCompleted(r) /\ errors[r] = 0
        /\ EndsWith(r, "rsnapshot", "ok")

\* out is host between leading and trailing whitespace
TrimEquals(out, host) ==
    \E i, j \in 0..Len(out) :
        /\ i + Len(host) + j = Len(out)
        /\ \A k \in 1..i : out[k] \in Whitespace
        /\ \A k \in 1..Len(host) : out[i + k] = host[k]
        /\ \A k \in 1..j : out[i + Len(host) + k] \in Whitespace

\* C8: for an SSH item with validate_hostname set, the validation succeeds
\* exactly when the output of the remote hostname command, without leading
\* and trailing whitespace, is the item's host; when it fails the item ends
\* there (no hook, dump, config or rsnapshot) and errors rose by exactly 1.
C8_HostnameValidation ==
    \A r \in Runs :
        (StepsNamed(r, "hostname") # {} /\ item[r].validate_hostname = TRUE) =>
            \A i \in StepsNamed(r, "hostname") :
                /\ steps[r][i][2] = "ok" <=> TrimEquals(received[r], item[r].host)
                /\ steps[r][i][2] = "fail" =>
                       /\ i = Len(steps[r])
                       /\ ItemOver(r) /\ last[r] = "skipped"
                       /\ errors[r] = hist[r].err0 + 1

\* C8 witness: the output " db1 \n" was accepted for the host db1
C8_Witness ==
    \E r \in Runs :
        /\ EndsWith(r, "hostname", "ok")
        /\ item[r].host = DB1
        /\ item[r].validate_hostname = TRUE
        /\ received[r] = <<" ">> \o DB1 \o <<" ", "\n">>

\* the current item is enabled and its type is none of the five known types
UnknownItem(r) ==
    /\ Has(item[r], "enabled") /\ item[r].enabled = TRUE
    /\ item[r].type \notin (SshTypes \cup NativeTypes)

\* no config was written and no rsnapshot was run for the current item
NothingEmitted(r) ==
    \A i \in StepsNamed(r, "conf") \cup StepsNamed(r, "rsnapshot") :
        steps[r][i][2] = "fault"

\* C9 as stated: in every mode, once an enabled item of unknown type (one
\* the filters let through) is over, errors rose by one, nothing was emitted
\* or run for it, and the loop goes on.
C9_UnknownTypeEveryMode ==
    \A r \in Runs :
        (UnknownItem(r) /\ Selected(item[r], args[r]) /\ ItemOver(r)) =>
            /\ errors[r] = hist[r].err0 + 1
            /\ NothingEmitted(r)
            /\ last[r] # "aborted"

\* C9 amended: in sync mode an enabled, filter-matching item of unknown type
\* never enters the SSH or native pipeline; once it is over errors rose by
\* one, nothing was emitted or run for it, and the loop goes on.  In the
\* rotation modes the type is not examined: no item is refused.
C9_UnknownTypeSync ==
    \A r \in Runs :
        /\ (UnknownItem(r) /\ Selected(item[r], args[r]) /\ args[r].mode = "sync") =>
               /\ pc[r] \in {"before_check", "unknown_type", "loop", "finally", "exited"}
               /\ NothingEmitted(r)
               /\ ItemOver(r) =>
                      (errors[r] = hist[r].err0 + 1 /\ last[r] \in {"skipped", "fault"})
        /\ args[r].mode \in RotateModes =>
               (pc[r] # "unknown_type" /\ ~hist[r].cond)

\* C9 witness: in sync mode an item of unknown type was refused and the loop
\* is ready for the next item
C9_Witness ==
    \E r \in Runs :
        /\ UnknownItem(r) /\ args[r].mode = "sync"
        /\ pc[r] = "loop" /\ idx[r] < nItems[r]
        /\ last[r] = "skipped" /\ steps[r] = <<>>
        /\ hist[r].cond /\ errors[r] = hist[r].err0 + 1

\* C10: in sync mode, when the remote dump script of a database item exits
\* non-zero the item ends there: errors rose by one for the dump, no config
\* was written, rsnapshot was not run, and the loop goes on.
C10_DumpFailureSkipsItem ==
    \A r \in Runs :
        \A i \in StepsNamed(r, "dump") :
            /\ item[r].type \in DbTypes /\ args[r].mode = "sync"
            /\ steps[r][i][2] = "fail" =>
                   /\ i = Len(steps[r])
                   /\ ItemOver(r) /\ last[r] = "skipped"
                   /\ NothingEmitted(r)
                   /\ StepsNamed(r, "cleanup") = {}
                   /\ errors[r] = hist[r].err0 + Cardinality(Counted(r))
                   /\ i \in Counted(r)

\* C10 witness: the dump of the first of several items failed and the loop
\* is ready for the next item
C10_Witness ==
    \E r \in Runs :
        /\ EndsWith(r, "dump", "fail")
        /\ item[r].type \in DbTypes
        /\ pc[r] = "loop" /\ idx[r] < nItems[r]
        /\ errors[r] = hist[r].err0 + 1

\* the dump script of the current item ran to its end, with rc 0 or not
DumpAttempted(r) ==
    \E i \in StepsNamed(r, "dump") : steps[r][i][2] \in {"ok", "fail"}

\* C11: in sync mode, once a database item whose dump script was attempted
\* is over, the removal of partially downloaded dumps has run for it,
\* whether the dump script succeeded or failed.
C11_CleanupAfterDump ==
    \A r \in Runs :
        (DumpAttempted(r) /\ ItemOver(r)) => StepsNamed(r, "cleanup") # {}

\* the step after step i of the current item is named name: it has run, or
\* it is the one the run is about to take
Then(r, i, name, label) ==
    IF i = Len(steps[r]) THEN pc[r] = label ELSE steps[r][i + 1][1] = name

\* step i ended the current item with a skip and one error
Skipped(r, i) ==
    /\ i = Len(steps[r])
    /\ ItemOver(r) /\ last[r] = "skipped"
    /\ errors[r] = hist[r].err0 + 1

\* C12: when the first SSH check fails and the host is not SELF_HOSTNAME the
\* item is skipped with one error and no authorization script runs; when the
\* host is SELF_HOSTNAME the authorization script runs and the SSH check is
\* made once more; the item goes on to the hostname validation only after a
\* check that succeeded, and a failed re-check skips it with one error.
C12_SshCheckAndBootstrap ==
    \A r \in Runs :
        /\ \A n \in {"ssh_check", "bootstrap", "ssh_recheck"} :
               Cardinality(StepsNamed(r, n)) <= 1
        /\ \A i \in StepsNamed(r, "ssh_check") :
               /\ steps[r][i][2] = "fail" =>
                      /\ item[r].host # SELF_HOSTNAME
                      /\ Skipped(r, i)
               /\ steps[r][i][2] = "fail_loopback" =>
                      /\ item[r].host = SELF_HOSTNAME
                      /\ Then(r, i, "bootstrap", "bootstrap")
               /\ steps[r][i][2] # "fail_loopback" =>
                      StepsNamed(r, "bootstrap") \cup StepsNamed(r, "ssh_recheck") = {}
        /\ \A i \in StepsNamed(r, "bootstrap") :
               /\ steps[r][i][2] = "ok" => Then(r, i, "ssh_recheck", "ssh_recheck")
               /\ steps[r][i][2] = "fail" => Skipped(r, i)
        /\ \A i \in StepsNamed(r, "ssh_recheck") :
               /\ i > 1 /\ steps[r][i - 1] = <<"bootstrap", "ok">>
               /\ steps[r][i][2] = "fail" => Skipped(r, i)
        /\ \A i \in StepsNamed(r, "hostname") :
               /\ i > 1
               /\ steps[r][i - 1] \in {<<"ssh_check", "ok">>, <<"ssh_recheck", "ok">>}

\* C12 witness: on the backup server itself the first check failed, the key
\* was authorized, the second check succeeded and the hostname was validated
C12_Witness ==
    \E r \in Runs :
        /\ EndsWith(r, "hostname", "ok")
        /\ item[r].host = SELF_HOSTNAME
        /\ \E i \in 1..Len(steps[r]) - 3 :
               /\ steps[r][i] = <<"ssh_check", "fail_loopback">>
               /\ steps[r][i + 1] = <<"bootstrap", "ok">>
               /\ steps[r][i + 2] = <<"ssh_recheck", "ok">>

\* the lines of the file that are the key
KeyEntries(text) ==
    IF text = ABSENT THEN {}
    ELSE { i \in 1..Len(Lines(text)) : Lines(text)[i] = PubKey }

\* C13: after any number of runs of the authorization script, from any
\* state of /root/.ssh, the public key is a line of authorized_keys exactly
\* once, and a second run leaves the file as the first one left it.
C13_KeyAuthorizedOnce ==
    boot_runs >= 1 =>
        /\ Cardinality(KeyEntries(authorized_keys)) = 1
        /\ boot_runs >= 2 => authorized_keys = keys_before

\* command cmd of script s ran and returned 0
InLog(s, cmd) == \E i \in 1..Len(script[s].log) : script[s].log[i] = cmd

\* script s has made dump.lock and its shell has not left yet
Holding(s) == script[s].state \in {"running", "exiting"} /\ InLog(s, "mkdir_lock")

\* script s is in the wait loop
Waiting(s) == script[s].state = "running" /\ Command(s) = "wait"

\* C14: of the remote dump scripts working on one dump directory, at most
\* one at a time is between making dump.lock and removing it, and dump.lock
\* is then the directory that script made.
C14_DumpLockExcludes ==
    /\ \A s, t \in Scripts : (Holding(s) /\ Holding(t)) => s = t
    /\ \A s \in Scripts : Holding(s) => (dump_dir.lock /\ dump_dir.owner = s)

\* C14 witness: one script is at its dump command while another one sleeps
\* in the wait loop
C14_Witness ==
    \E s, t \in Scripts :
        /\ s # t
        /\ Holding(s) /\ script[s].state = "running" /\ Command(s) = "dump"
        /\ Waiting(t) /\ script[t].polled

\* C15: a script that made dump.lock has removed it once its shell has left,
\* after the last command as after a command that returned non-zero.
C15_DumpLockRemovedOnExit ==
    \A s \in Scripts :
        (script[s].state = "exited" /\ InLog(s, "mkdir_lock")) =>
            /\ dump_dir.owner # s
            /\ (\A t \in Scripts : ~Holding(t)) => ~dump_dir.lock

\* C15 witness: the expiry or a dump command failed under the lock, the
\* shell has left and dump.lock is gone
C15_Witness ==
    \E s \in Scripts :
        /\ script[s].state = "exited" /\ script[s].rc = 1
        /\ InLog(s, "trap") /\ ~InLog(s, "dump")
        /\ ~dump_dir.lock

\* C16: a script that is in the wait loop leaves it eventually, also when
\* nobody removes dump.lock.
C16_WaitEnds ==
    \A s \in Scripts : Waiting(s) ~> ~Waiting(s)

\* the place of a command in the order the scripts are to follow
DumpRank(cmd) ==
    CASE cmd = "mkdir_p"    -> 1
      [] cmd = "chmod"      -> 2
      [] cmd = "wait"       -> 3
      [] cmd = "mkdir_lock" -> 4
      [] cmd = "trap"       -> 5
      [] cmd = "cd"         -> 6
      [] cmd = "expire"     -> 7
      [] cmd = "globals"    -> 8
      [] cmd = "dump"       -> 9

\* the commands every variant runs before the expiry
Preamble == {"mkdir_p", "chmod", "wait", "mkdir_lock", "trap"}

\* C17: every variant of the remote script creates the dump directory,
\* restricts its mode, waits for dump.lock to be gone, makes dump.lock,
\* registers the trap, expires old dumps and dumps, in this order; the
\* expiry and the dump commands run only while the script holds dump.lock.
C17_DumpScriptOrder ==
    \A s \in Scripts :
        LET log == script[s].log
        IN  /\ \A i, j \in 1..Len(log) : i < j => DumpRank(log[i]) < DumpRank(log[j])
            /\ \A i \in 1..Len(log) :
                   \A c \in Preamble : DumpRank(c) < DumpRank(log[i]) => InLog(s, c)
            /\ InLog(s, "dump") => InLog(s, "expire")
            /\ (InLog(s, "dump") /\ script[s].variant = "postgresql") => InLog(s, "globals")
            /\ InLog(s, "chmod") => dump_dir.mode = "700"
            /\ (script[s].state = "running" /\ Command(s) \in {"expire", "globals", "dump"}) =>
                   (dump_dir.lock /\ dump_dir.owner = s /\ script[s].trap)

\* C17 witness: a postgresql script ran all its commands and left with 0
C17_Witness ==
    \E s \in Scripts :
        /\ script[s].state = "exited" /\ script[s].rc = 0
        /\ script[s].variant = "postgresql"
        /\ script[s].log = <<"mkdir_p", "chmod", "wait", "mkdir_lock", "trap", "cd",
                             "expire", "globals", "dump">>

\* the place of a step in the order the SSH sync branch is to follow
SyncRank(name) ==
    CASE name = "before_backup_check" -> 0
      [] name = "ssh_check"           -> 1
      [] name = "bootstrap"           -> 2
      [] name = "ssh_recheck"         -> 3
      [] name = "hostname"            -> 4
      [] name = "exec_before_rsync"   -> 5
      [] name = "dump"                -> 6
      [] name = "cleanup"             -> 7
      [] name = "conf"                -> 8
      [] name = "rsnapshot"           -> 9
      [] name = "exec_after_rsync"    -> 10
      [] OTHER                        -> 11

\* the current item is an SSH item processed in sync mode
SshSync(r) ==
    /\ args[r].mode = "sync"
    /\ Has(item[r], "type") /\ item[r].type \in SshTypes

\* one of the steps before step i of the current item is in the set done
Earlier(r, i, done) == \E k \in 1..(i - 1) : steps[r][k] \in done

\* C18: for an SSH item in sync mode the steps come in the order SSH check,
\* hostname validation, exec_before_rsync, dump (database types only),
\* config, rsnapshot sync, exec_after_rsync, each at most once; rsnapshot
\* runs only after an SSH check that succeeded, a hostname validation that
\* succeeded, a config that was written and, for database types, a dump
\* script that exited 0.
C18_SshSyncOrder ==
    \A r \in Runs :
        SshSync(r) =>
            /\ \A i, j \in 1..Len(steps[r]) :
                   i < j => SyncRank(steps[r][i][1]) < SyncRank(steps[r][j][1])
            /\ \A i \in StepsNamed(r, "rsnapshot") :
                   /\ Earlier(r, i, {<<"ssh_check", "ok">>, <<"ssh_recheck", "ok">>})
                   /\ Earlier(r, i, {<<"hostname", "ok">>})
                   /\ steps[r][i - 1] = <<"conf", "ok">>
                   /\ item[r].type \in DbTypes <=> Earlier(r, i, {<<"dump", "ok">>})
            /\ \A i \in StepsNamed(r, "exec_before_rsync") \cup StepsNamed(r, "dump") :
                   Earlier(r, i, {<<"hostname", "ok">>})
            /\ StepsNamed(r, "dump") # {} => item[r].type \in DbTypes
            /\ \A i \in StepsNamed(r, "exec_after_rsync") :
                   steps[r][i - 1][1] = "rsnapshot"

\* C18 witness: a database item went through the SSH check, the hostname
\* validation, the pre-hook, the dump, the config and rsnapshot
C18_Witness ==
    \E r \in Runs :
        /\ SshSync(r) /\ item[r].type \in DbTypes
        /\ pc[r] = "loop" /\ last[r] = "done"
        /\ steps[r] = << <<"ssh_check", "ok">>, <<"hostname", "ok">>,
                         <<"exec_before_rsync", "ok">>, <<"dump", "ok">>,
                         <<"cleanup", "ok">>, <<"conf", "ok">>, <<"rsnapshot", "ok">> >>

\* no step after step i of the current item raised, and no dump after it failed
GoesWell(r, i) ==
    \A j \in (i + 1)..Len(steps[r]) :
        steps[r][j][2] # "fault" /\ steps[r][j] # <<"dump", "fail">>

\* C19: in the SSH sync branch a non-zero exit of exec_before_rsync, of the
\* removal of partial dumps or of exec_after_rsync adds one to the error
\* counter and the item goes on with its next step; unless a later step
\* raises or the dump fails, the item ends with the dump (database types),
\* the config, rsnapshot and the post-hook (if configured) all run.
C19_HookFailureGoesOn ==
    \A r \in Runs :
        SshSync(r) =>
            \A i \in 1..Len(steps[r]) :
                (/\ steps[r][i][1] \in {"exec_before_rsync", "cleanup", "exec_after_rsync"}
                 /\ steps[r][i][2] = "fail") =>
                    /\ i \in Counted(r)
                    /\ errors[r] = hist[r].err0 + Cardinality(Counted(r))
                    /\ steps[r][i][1] = "exec_before_rsync" =>
                           IF item[r].type \in DbTypes
                           THEN Then(r, i, "dump", "dump")
                           ELSE Then(r, i, "conf", "ssh_conf")
                    /\ steps[r][i][1] = "cleanup" => Then(r, i, "conf", "ssh_conf")
                    /\ steps[r][i][1] = "exec_after_rsync" =>
                           i = Len(steps[r]) /\ ItemOver(r) /\ last[r] = "done"
                    /\ (ItemOver(r) /\ GoesWell(r, i)) =>
                           /\ last[r] = "done"
                           /\ StepsNamed(r, "conf") # {}
                           /\ StepsNamed(r, "rsnapshot") # {}
                           /\ item[r].type \in DbTypes =>
                                  StepsNamed(r, "dump") # {} /\ StepsNamed(r, "cleanup") # {}
                           /\ Has(item[r], "exec_after_rsync") =>
                                  StepsNamed(r, "exec_after_rsync") # {}

\* C19 witness: the pre-hook and the removal of partial dumps of a database
\* item both failed, and the dump, the config and rsnapshot still ran
C19_Witness ==
    \E r \in Runs :
        /\ SshSync(r) /\ pc[r] = "loop" /\ last[r] = "done"
        /\ errors[r] = hist[r].err0 + 2
        /\ steps[r] = << <<"ssh_check", "ok">>, <<"hostname", "ok">>,
                         <<"exec_before_rsync", "fail">>, <<"dump", "ok">>,
                         <<"cleanup", "fail">>, <<"conf", "ok">>, <<"rsnapshot", "ok">> >>

\* C20: a non-zero exit of rsnapshot, in sync mode (SSH or native) or in a
\* rotation mode, is counted once for the item, the item goes on with the
\* step that follows rsnapshot, and the loop is left only after the last
\* item has been taken.
C20_ToolFailureCounted ==
    \A r \in Runs :
        \A i \in StepsNamed(r, "rsnapshot") :
            steps[r][i][2] = "fail" =>
                /\ StepsNamed(r, "rsnapshot") = {i}
                /\ i \in Counted(r)
                /\ errors[r] = hist[r].err0 + Cardinality(Counted(r))
                /\ last[r] \notin {"skipped", "aborted"}
                /\ LeftLoop(r) => idx[r] = nItems[r]
                /\ IF args[r].mode \in RotateModes
                   THEN i = Len(steps[r]) /\ ItemOver(r) /\ last[r] = "done"
                   ELSE IF item[r].type \in NativeTypes
                   THEN Then(r, i, "passwd_remove", "native_rm")
                   ELSE \/ Then(r, i, "exec_after_rsync", "exec_after")
                        \/ i = Len(steps[r]) /\ ItemOver(r) /\ last[r] = "done"

\* C20 witness: in a rotation mode rsnapshot failed for an item that is not
\* the last one, and the loop is about to take the next item
C20_Witness ==
    \E r \in Runs :
        /\ args[r].mode \in RotateModes
        /\ EndsWith(r, "rsnapshot", "fail")
        /\ pc[r] = "loop" /\ idx[r] < nItems[r]
        /\ errors[r] = hist[r].err0 + 1

\* the run has taken no item, run no command and written no file
NothingDone(r) ==
    /\ idx[r] = 0 /\ item[r] = NoItem
    /\ steps[r] = <<>> /\ errors[r] = -1 /\ paths_processed[r] = <<>>
    /\ conf = ABSENT /\ passwd = ABSENT

\* C21: a run whose configuration is not enabled exits with status 0 without
\* ever holding LOCK_FILE, taking an item or writing RSNAPSHOT_CONF or
\* RSNAPSHOT_PASSWD; a run whose configuration cannot be loaded, or that
\* finds LOCK_FILE held, takes no item either and exits with status 1.
C21_NoWorkBeforeStart ==
    \A r \in Runs :
        /\ last[r] = "disabled" =>
               NothingDone(r) /\ lock # r /\ pc[r] = "exited" /\ exit_code[r] = 0
        /\ last[r] = "load_failed" =>
               NothingDone(r) /\ lock # r /\ pc[r] = "exited" /\ exit_code[r] = 1
        /\ last[r] = "locked_out" =>
               /\ NothingDone(r) /\ lock # r
               /\ pc[r] \in {"finally", "exited"}
               /\ pc[r] = "exited" => exit_code[r] = 1
        /\ pc[r] \in {"load", "lock"} => NothingDone(r) /\ lock # r

\* C21 witness: a configuration with items that is not enabled: the run has
\* exited with status 0 and LOCK_FILE is free
C21_Witness ==
    \E r \in Runs :
        /\ last[r] = "disabled" /\ pc[r] = "exited"
        /\ nItems[r] > 0 /\ lock = 0

\* the current item is an RSYNC_NATIVE item without connect_password that a
\* sync run has selected
NoPassword(r) ==
    /\ args[r].mode = "sync"
    /\ Has(item[r], "type") /\ item[r].type \in NativeTypes
    /\ ~Has(item[r], "connect_password")
    /\ Has(item[r], "enabled") /\ Selected(item[r], args[r])

\* C22: in sync mode an RSYNC_NATIVE item without connect_password never
\* reaches the password file, the remote check, the config or rsnapshot;
\* unless its before_backup_check stopped it first, it ends skipped with
\* exactly one error.
C22_NoPasswordSkipsItem ==
    \A r \in Runs :
        NoPassword(r) =>
            /\ pc[r] \notin {"native_passwd", "native_txt", "native_conf",
                              "native_run", "native_rm"}
            /\ \A i \in 1..Len(steps[r]) : steps[r][i][1] = "before_backup_check"
            /\ (ItemOver(r) /\ Counted(r) = {}) =>
                   /\ last[r] = "skipped" /\ hist[r].cond
                   /\ errors[r] = hist[r].err0 + 1

\* C22 witness: the item without connect_password was skipped with one
\* error, no password file exists and the loop has items left
C22_Witness ==
    \E r \in Runs :
        /\ NoPassword(r)
        /\ pc[r] = "loop" /\ idx[r] < nItems[r]
        /\ last[r] = "skipped" /\ errors[r] = hist[r].err0 + 1
        /\ passwd = ABSENT /\ steps[r] = <<>>

\* the keys whose value follows from the command line, not from the item
DerivedKeys == {"verbosity_level", "rsync_verbosity_args"}

\* applying the defaults again gives what applying them once gives
DefaultsIdempotent ==
    (prep_passes >= 1 /\ prep_conf = NoConf) =>
        prep_item = ApplyDefaults(prep_in, prep_debug)

\* C23 as stated: the defaults are idempotent and every key of the loaded
\* item keeps its value.
C23_DefaultsKeepEveryKey ==
    /\ DefaultsIdempotent
    /\ prep_passes >= 1 =>
           \A k \in DOMAIN prep_in : prep_item[k] = prep_in[k]

\* C23: the defaults are idempotent, and every key of the loaded item keeps
\* its value, false and 0 included, except verbosity_level and
\* rsync_verbosity_args, which are set from the debug flag on every pass.
C23_DefaultsKeepSuppliedKeys ==
    /\ DefaultsIdempotent
    /\ prep_passes >= 1 =>
           /\ \A k \in DOMAIN prep_in \ DerivedKeys : prep_item[k] = prep_in[k]
           /\ prep_item.verbosity_level = IF prep_debug THEN 5 ELSE 2
           /\ prep_item.rsync_verbosity_args =
                  IF prep_debug THEN <<"--human-readable --progress">> ELSE <<>>

\* C23 witness: the defaults were applied twice to an item that gives
\* retain_daily: 0 and validate_hostname: false and leaves retain_weekly out
C23_Witness ==
    /\ prep_passes = 2
    /\ Has(prep_in, "retain_daily") /\ prep_in.retain_daily = 0
    /\ Has(prep_in, "validate_hostname") /\ prep_in.validate_hostname = FALSE
    /\ ~Has(prep_in, "retain_weekly")
    /\ prep_item.retain_daily = 0 /\ prep_item.validate_hostname = FALSE
    /\ prep_item.retain_weekly = 4

\* the lines of the generated config that hold the chunk c
LinesWith(c) ==
    { i \in 1..Len(prep_conf.lines) :
        \E j \in 1..Len(prep_conf.lines[i]) : prep_conf.lines[i][j] = c }

\* line i of the generated config is the active line "retain <level> <n>"
ActiveRetain(i, level, n) == prep_conf.lines[i] = <<level>> \o ToStr(n)

\* C24: each generated config, rotation, SSH sync or native sync, has one
\* hourly retention line: "#retain hourly NONE" when the item has no
\* retain_hourly, "retain hourly <value>" when it has one; the daily, weekly
\* and monthly lines are active and carry the item's values.
C24_RetentionLines ==
    prep_conf.kind \in {"rotation", "ssh", "native"} =>
        /\ \E i \in 1..Len(prep_conf.lines) : LinesWith("retain\t\thourly\t") = {i}
        /\ \A i \in LinesWith("retain\t\thourly\t") :
               IF Has(prep_in, "retain_hourly")
               THEN ActiveRetain(i, "retain\t\thourly\t", prep_in.retain_hourly)
               ELSE prep_conf.lines[i] = <<"#", "retain\t\thourly\t", "NONE">>
        /\ \E i \in 1..Len(prep_conf.lines) :
               ActiveRetain(i, "retain\t\tdaily\t", prep_item.retain_daily)
        /\ \E i \in 1..Len(prep_conf.lines) :
               ActiveRetain(i, "retain\t\tweekly\t", prep_item.retain_weekly)
        /\ \E i \in 1..Len(prep_conf.lines) :
               ActiveRetain(i, "retain\t\tmonthly\t", prep_item.retain_monthly)
        /\ \A c \in {"retain\t\tdaily\t", "retain\t\tweekly\t", "retain\t\tmonthly\t"} :
               \A i \in LinesWith(c) : prep_conf.lines[i][1] = c

\* C24 witness: the SSH sync config of an item with retain_hourly: 3 and
\* retain_daily: 0 holds "retain hourly 3" and "retain daily 0"
C24_Witness ==
    /\ prep_conf.kind = "ssh"
    /\ Has(prep_in, "retain_hourly") /\ prep_in.retain_hourly = 3
    /\ prep_item.retain_daily = 0
    /\ \E i \in 1..Len(prep_conf.lines) :
           prep_conf.lines[i] = <<"retain\t\thourly\t", "3">>
    /\ \E i \in 1..Len(prep_conf.lines) :
           prep_conf.lines[i] = <<"retain\t\tdaily\t", "0">>

\* the threshold the generated find command carries after "-mmin +"
MminOf(cmd) == cmd[(CHOOSE i \in 1..Len(cmd) : cmd[i] = " -mmin +") + 1]

\* C25: in the xtrabackup, mysqldump, postgresql and mongodb scripts the find
\* command removes dumps older than 59 minutes when the item has the key
\* retain_hourly, whatever its value, and older than 720 minutes otherwise.
C25_ExpiryThreshold ==
    prep_script.variant \in DumpVariants =>
        /\ Cardinality({ i \in 1..Len(prep_script.expire) :
                           prep_script.expire[i] = " -mmin +" }) = 1
        /\ MminOf(prep_script.expire) =
               IF Has(prep_in, "retain_hourly") THEN "59" ELSE "720"

\* C25 witness: the mysqldump script of an item with retain_hourly: 0 removes
\* dumps older than 59 minutes
C25_Witness ==
    /\ prep_script.variant = "mysqldump"
    /\ Has(prep_in, "retain_hourly") /\ prep_in.retain_hourly = 0
    /\ MminOf(prep_script.expire) = "59"

\* the backup lines of the generated config
BackupLineNumbers == { i \in 1..Len(prep_conf.lines) :
                         prep_conf.lines[i] # <<>> /\ prep_conf.lines[i][1] = "backup\t\t" }

\* the source path of a backup line "backup user@host:<source>/ rsnapshot/"
SourceOf(line) == << line[(CHOOSE i \in 1..Len(line) : line[i] = ":") + 1] >>

\* the directories of a list, as a set
Dirs(list) == { list[i] : i \in 1..Len(list) }

\* the directories the item excludes
Excluded(it) == IF Has(it, "exclude") THEN Dirs(it.exclude) ELSE {}

\* the backup lines are one line for each directory of the set of family k
\* that the item does not exclude, and no other line
ExpandedAs(k) ==
    /\ { SourceOf(prep_conf.lines[i]) : i \in BackupLineNumbers }
           = Dirs(DataExpand(k)) \ Excluded(prep_in)
    /\ Cardinality(BackupLineNumbers) = Cardinality(Dirs(DataExpand(k)) \ Excluded(prep_in))

\* the SSH sync config of an RSYNC_SSH item has been generated
RsyncSshConf == prep_conf.kind = "ssh" /\ prep_in.type = "RSYNC_SSH"

\* C26 as stated: for an RSYNC_SSH item with source "ALL" the config has one
\* backup line for each directory of a canonical set that is not excluded.
C26_AllExpands ==
    (RsyncSshConf /\ prep_in.source = <<"ALL">>) =>
        \E k \in DataExpandKeys : ExpandedAs(k)

\* C26: for an RSYNC_SSH item whose source is UBUNTU, DEBIAN or CENTOS the
\* config has one backup line for each directory of that family's set that
\* is not in the item's exclude list, and no line for an excluded directory.
C26_FamilyExpands ==
    (RsyncSshConf /\ prep_in.source \in DataExpandKeys) => ExpandedAs(prep_in.source)

\* C26 witness: a CENTOS item that excludes /var/lib/rpm and /srv got six
\* backup lines, none of them for /var/lib/rpm
C26_Witness ==
    /\ RsyncSshConf /\ prep_in.source = <<"CENTOS">>
    /\ Excluded(prep_in) = {<<"/var/lib/rpm">>, <<"/srv">>}
    /\ Cardinality(BackupLineNumbers) = 6
    /\ \A i \in BackupLineNumbers : SourceOf(prep_conf.lines[i]) # <<"/var/lib/rpm">>

\* C27: a per-database dump step that finds the database's artifact in place
\* does not invoke the dump tool and leaves the artifact as it was, even if
\* the database has changed since; the tool is invoked exactly when the
\* artifact is missing.
C27_DumpStepIdempotent ==
    dp_last.db # "none" =>
        /\ dp_last.invoked <=> ~dp_last.existed
        /\ dp_last.existed =>
               /\ dp_art[dp_last.db] = dp_last.before
               /\ dp_last.before.kind = ArtifactKind(dp_variant)

\* C27 witness: the database was dumped once, its content changed, and the
\* step that ran again left the first artifact in place
C27_Witness ==
    /\ dp_last.db = "shop" /\ dp_last.existed /\ ~dp_last.invoked
    /\ dp_variant = "mysqldump"
    /\ dp_calls["shop"] = 1
    /\ dp_ver["shop"] = 2
    /\ dp_art["shop"] = [kind |-> "file", content |-> 1]

\* the item is disabled, or a filter is given that it does not match
FilteredOut(it, a) ==
    \/ ~it.enabled
    \/ Has(a, "item_number") /\ ToStr(it.number) # a.item_number
    \/ Has(a, "host") /\ it.host # a.host

\* C28: taking an item that is disabled, or that does not match the
\* --item-number or --host filter, leaves the run between two items with no
\* command run, no file written, the item without defaults or derived keys,
\* and the error counter, the rotated paths and the lock as they were.
C28_ExcludedItemNoEffect ==
    [][\A r \in Runs :
          (/\ pc[r] = "loop" /\ idx'[r] = idx[r] + 1
           /\ Has(item'[r], "enabled") /\ FilteredOut(item'[r], args[r])) =>
              /\ pc'[r] = "loop"
              /\ steps'[r] = <<>>
              /\ item'[r] \in { it @@ ("number" :> idx'[r]) : it \in ItemPool }
              /\ errors' = errors /\ paths_processed' = paths_processed
              /\ conf' = conf /\ passwd' = passwd /\ lock' = lock
              /\ exc' = exc /\ exit_code' = exit_code]_vars

\* C28 witness: with --host given, an item of another host was passed over
\* after an item of the host had been rotated
C28_Witness ==
    \E r \in Runs :
        /\ last[r] = "excluded" /\ pc[r] = "loop"
        /\ Has(args[r], "host") /\ item[r].enabled /\ item[r].host # args[r].host
        /\ paths_processed[r] # <<>> /\ conf # ABSENT
        /\ steps[r] = <<>>

\* the run is about to start rsnapshot
AtTool(r) == pc[r] \in {"rot_run", "ssh_run", "native_run"}

\* the config the run is to hand to rsnapshot for its current item and mode
ConfOf(r) ==
    IF args[r].mode \in RotateModes THEN RotationConf(item[r])
    ELSE IF item[r].type \in SshTypes THEN SshConf(item[r])
    ELSE NativeConf(item[r])

Working(r) == last[r] \notin {"none", "load_failed", "disabled", "locked_out"}

\* how the item taken last ended: completed, skipped or failed
Outcomes == {"done", "skipped", "dedup", "excluded", "fault"}

\* C30: a run that got the lock leaves the item loop only after every item of
\* the configuration has been taken, and each item taken has ended in one of
\* the outcomes before the next one is taken or the loop is left.
C30_EveryItemHandled ==
    \A r \in Runs :
        /\ (Working(r) /\ ItemOver(r) /\ Has(item[r], "enabled")) => last[r] \in Outcomes
        /\ (Working(r) /\ LeftLoop(r)) => idx[r] = nItems[r]

C32_NoValidationWhenOff ==
    \A r \in Runs :
        (SshSync(r) /\ Has(item[r], "validate_hostname")
                    /\ item[r].validate_hostname = FALSE) =>
            \A i \in StepsNamed(r, "hostname") : steps[r][i][2] # "fail"

\* C33: an artifact that a step of a mysqldump or pg_dump script leaves in
\* place was written by a dump command that completed: a step that finds what
\* a failed dump left behind runs the dump command again.
C33_KeptArtifactIsComplete ==
    (dp_variant \in {"mysqldump", "postgresql"} /\ dp_last.db # "none") =>
        /\ ~dp_last.invoked => dp_art[dp_last.db].content >= 1
        /\ (dp_last.existed /\ dp_last.before.content = 0) => dp_last.invoked

\* run r takes a step
Steps(r) == pc'[r] # pc[r]

\* C34: a run that found LOCK_FILE held leaves it as it is in every step it
\* takes, its release() in the cleanup included, and exits with code 1; the
\* run that is inside the item loop keeps holding the lock, and every run
\* that tries to acquire the lock while it is held is rejected.
C34_RejectedRunLeavesLock ==
    [][ \A r \in Runs :
          /\ (Steps(r) /\ last'[r] = "locked_out") =>
                 /\ lock' = lock
                 /\ pc'[r] \in {"finally", "exited"}
                 /\ pc'[r] = "exited" => exit_code'[r] = 1
          /\ (Steps(r) /\ pc[r] = "lock" /\ lock # 0) => last'[r] = "locked_out"
          /\ (InLoop(r) /\ pc'[r] = pc[r]) => lock' = r
      ]_vars

\* C34 witness: the sync run is in the middle of an item and holds the lock;
\* the daily rotation has failed and is gone, with exit status 1, and the
\* hourly rotation has been rejected after that and has exited with status 1
C34_Witness ==
    /\ InLoop(1) /\ pc[1] # "loop" /\ lock = 1
    /\ pc[2] = "gone" /\ exit_code[2] = 1
    /\ pc[3] = "exited" /\ last[3] = "locked_out" /\ exit_code[3] = 1

\* script s is about to run mkdir {dump_dir}/dump.lock: it has seen dump.lock
\* absent
AtMkdirLock(s) == script[s].state = "running" /\ Command(s) = "mkdir_lock"

\* script s found dump.lock made by another script and its shell has left
LostRace(s) ==
    /\ script[s].state = "exited"
    /\ InLog(s, "wait") /\ ~InLog(s, "mkdir_lock")

\* C35: of the scripts that saw dump.lock absent, the first to run mkdir
\* makes dump.lock and goes on; a script that runs mkdir when dump.lock is
\* there leaves at once with a non-zero status, with no trap registered and
\* without any later command, and dump.lock stays with the script that
\* made it.
C35_RaceLoserLeavesLock ==
    [][ \A s \in Scripts :
          (AtMkdirLock(s) /\ script'[s] # script[s]) =>
              IF dump_dir.lock
              THEN /\ dump_dir' = dump_dir
                   /\ LostRace(s)'
                   /\ script'[s].rc = 1
                   /\ ~script'[s].trap
                   /\ script'[s].log = <<"mkdir_p", "chmod", "wait">>
              ELSE /\ dump_dir'.lock /\ dump_dir'.owner = s
                   /\ Holding(s)'
                   /\ \A t \in Scripts \ {s} : ~Holding(t)'
      ]_vars

\* C35 witness: two scripts saw dump.lock absent; one made it and is at its
\* dump command, the other has left with status 1 right after the wait loop
C35_Witness ==
    \E s, t \in Scripts :
        /\ s # t
        /\ LostRace(s) /\ script[s].rc = 1 /\ ~script[s].polled
        /\ Holding(t) /\ Command(t) = "dump"
        /\ dump_dir.lock /\ dump_dir.owner = t

\* C36 as stated: at the end of a rotation-mode run, rsnapshot has run for a
\* path exactly when an enabled, filter-matching item with that path had no
\* before_backup_check or passed it.
C36_RotatedIffChecked ==
    \A r \in Runs :
        (args[r].mode \in RotateModes /\ LeftLoop(r) /\ errors[r] >= 0) =>
            \A p \in Paths : hist[r].tool[p] >= 1 <=> p \in hist[r].passed

\* C36 amended: the same, except for a path whose rotation an exception
\* interrupted between the dedup and the start of rsnapshot; a failed check
\* does not record the path of its item.
C36_RotatedIffCheckedUnbroken ==
    \A r \in Runs :
        args[r].mode \in RotateModes =>
            /\ (LeftLoop(r) /\ errors[r] >= 0) =>
                   \A p \in Paths :
                       hist[r].tool[p] >= 1 <=>
                           (p \in hist[r].passed /\ p \notin hist[r].broken)
            /\ \A p \in Paths :
                   InList(p, paths_processed[r]) => p \in hist[r].passed
            /\ EndsWith(r, "before_backup_check", "fail") =>
                   (ItemOver(r) /\ Len(steps[r]) = 1)

\* C36 witness: two items share a path; the check of the first one failed,
\* the second one has been rotated
C36_Witness ==
    \E r \in Runs :
        /\ args[r].mode \in RotateModes
        /\ pc[r] = "loop" /\ idx[r] = 2 /\ last[r] = "done"
        /\ hist[r].trouble = "one_check"
        /\ hist[r].cfg_paths = {item[r].path}
        /\ hist[r].tool[item[r].path] = 1
        /\ paths_processed[r] = <<item[r].path>>

\* how many times the rotation of path p got as far as starting rsnapshot
\* or raising on the way to it
Attempts(r, p) == hist[r].tool[p] + (IF p \in hist[r].broken THEN 1 ELSE 0)

\* C37: in a rotation-mode run the path of an item is in paths_processed
\* while its config is written and rsnapshot runs; the rotation of a path is
\* attempted at most once, whether rsnapshot exits 0, exits non-zero or an
\* exception is raised, and a run that is about to start rsnapshot for a
\* path has not attempted that path before.
C37_NoRetryOfRotation ==
    \A r \in Runs :
        args[r].mode \in RotateModes =>
            /\ pc[r] \in {"rot_conf", "rot_run"} =>
                   /\ InList(item[r].path, paths_processed[r])
                   /\ Attempts(r, item[r].path) = 0
            /\ \A p \in Paths : Attempts(r, p) <= 1
            /\ \A i, j \in 1..Len(paths_processed[r]) :
                   paths_processed[r][i] = paths_processed[r][j] => i = j

\* C37 witness: rsnapshot exited non-zero for the first item; the second
\* item has the same path and was skipped as already rotated
C37_Witness ==
    \E r \in Runs :
        /\ args[r].mode \in RotateModes
        /\ pc[r] = "loop" /\ idx[r] = 2 /\ last[r] = "dedup"
        /\ errors[r] = 1 /\ hist[r].broken = {}
        /\ hist[r].tool[item[r].path] = 1
        /\ hist[r].passed = {item[r].path}

\* the step run r takes ends a command with a non-zero exit or an exception,
\* or refuses the item for its type or its missing password
FailingStep(r) ==
    \/ /\ Len(steps'[r]) = Len(steps[r]) + 1
       /\ steps'[r][Len(steps'[r])][2] \in {"fail", "fault"}
    \/ pc[r] = "unknown_type"
    \/ pc[r] = "native_check" /\ last'[r] = "skipped"

\* C38 as stated, the exit code: a run exits with code 1 exactly when its
\* error counter is greater than zero.
C38_ExitOneIffErrors ==
    \A r \in Runs : pc[r] = "exited" => (exit_code[r] = 1 <=> errors[r] > 0)

\* C38 amended: once set to 0 the error counter changes only by rising by
\* one, and it does so exactly in the steps that fail; the run exits with
\* code 1 exactly when the final count is greater than zero, the
\* configuration could not be loaded, the lock was held or an exception
\* left the item loop.
C38_ErrorCounter ==
    [][ \A r \in Runs :
          /\ (errors[r] >= 0 /\ pc'[r] # "gone") =>
                 /\ errors'[r] \in {errors[r], errors[r] + 1}
                 /\ errors'[r] = errors[r] + 1 <=> FailingStep(r)
          /\ (Steps(r) /\ pc'[r] = "exited") =>
                 /\ exit_code'[r] \in {0, 1}
                 /\ exit_code'[r] = 1 <=>
                        \/ errors'[r] > 0
                        \/ last'[r] \in {"load_failed", "locked_out", "aborted"}
      ]_vars

\* C38 witness: the pre-hook, rsnapshot and the post-hook of one item failed,
\* the item added three errors and the run exited with code 1
C38_Witness ==
    \E r \in Runs :
        /\ pc[r] = "exited" /\ exit_code[r] = 1
        /\ SshSync(r) /\ last[r] = "done"
        /\ errors[r] = hist[r].err0 + 3
        /\ \E i, j, k \in 1..Len(steps[r]) :
              /\ steps[r][i] = <<"exec_before_rsync", "fail">>
              /\ steps[r][j] = <<"rsnapshot", "fail">>
              /\ steps[r][k] = <<"exec_after_rsync", "fail">>

\* C39: for an SSH item in sync mode whose rsnapshot sync returned, with
\* exit code 0 or not, the next step is exec_after_rsync when the item has
\* one, and the item is done right after rsnapshot when it has none; the
\* hook runs nowhere else, and only an exception raised by the sync ends the
\* item between the two.
C39_PostHookAfterSync ==
    \A r \in Runs :
        SshSync(r) =>
            /\ \A i \in StepsNamed(r, "rsnapshot") :
                   /\ steps[r][i][2] \in {"ok", "fail"} =>
                          IF Has(item[r], "exec_after_rsync")
                          THEN Then(r, i, "exec_after_rsync", "exec_after")
                          ELSE /\ i = Len(steps[r])
                               /\ pc[r] = "exec_after" \/ (ItemOver(r) /\ last[r] = "done")
                   /\ steps[r][i][2] = "fault" =>
                          /\ i = Len(steps[r])
                          /\ ItemOver(r) /\ last[r] = "fault"
            /\ \A k \in StepsNamed(r, "exec_after_rsync") :
                   /\ Has(item[r], "exec_after_rsync")
                   /\ k = Len(steps[r]) /\ ItemOver(r)
                   /\ k > 1 /\ steps[r][k - 1][1] = "rsnapshot"
                   /\ steps[r][k - 1][2] \in {"ok", "fail"}
            /\ (ItemOver(r) /\ Has(item[r], "exec_after_rsync")
                   /\ StepsNamed(r, "exec_after_rsync") = {}) =>
                   \/ last[r] \in {"skipped", "fault"}
                   \/ steps[r] = <<>>

\* C39 witness: rsnapshot sync exited non-zero and the post-hook ran after it
C39_Witness ==
    \E r \in Runs :
        /\ SshSync(r) /\ pc[r] = "loop" /\ last[r] = "done"
        /\ Len(steps[r]) >= 2
        /\ steps[r][Len(steps[r]) - 1] = <<"rsnapshot", "fail">>
        /\ steps[r][Len(steps[r])] = <<"exec_after_rsync", "ok">>
        /\ errors[r] = hist[r].err0 + 1

====
